---- MODULE Spec2Model ----
(***************************************************************************)
(* mini-crm-core: the public form submission pipeline                      *)
(* (POST /public/forms/:projectSlug/:formKey), the contact resolver        *)
(* (findOrCreateContact) and the storage constraints they rely on.         *)
(*                                                                         *)
(* Text values are sequences of one-character strings; the empty sequence  *)
(* stands for undefined / null / '' (the code tests all three by           *)
(* truthiness).  Row ids are positions in the table sequences.  Every      *)
(* `await` on storage is one atomic step of a handler.                     *)
(***************************************************************************)
EXTENDS Integers, Sequences, FiniteSets, TLC

VARIABLES contacts, cases, transactions, req, call, gate, origins, forms, seed, val,
          mail, subs, norm, clock, allowlist, originsCache, lookups,
          limiter, conf, members, staff, removed, invite, accepts

vars == <<contacts, cases, transactions, req, call, gate, origins, forms, seed,
         val, mail, subs, norm, clock, allowlist, originsCache, lookups,
         limiter, conf, members, staff, removed, invite, accepts>>

db == <<contacts, cases, transactions>>

\* what the submission pipeline and the resolver never write
\* the mailer with the submissions that notify through it
mailv == <<mail, subs>>

\* the origins cache of the CORS middleware, its clock and its lookups
cachev == <<clock, allowlist, originsCache, lookups>>

\* an invite of a project and the requests that accept it
inv == <<invite, accepts>>

\* the memberships of a project and the staff requests that manage them
team == <<members, staff, removed>>

\* what the public endpoints, the resolver and the staff routes never touch
side == <<mailv, norm, cachev, limiter, conf, team, inv>>

ext == <<gate, origins, forms, seed, val, side>>

\* the storage, the handlers, the gate and the staff routes
base == <<contacts, cases, transactions, req, call, gate, origins, forms, seed, val>>

\* everything but the mailer and its submissions
main == <<base, norm, cachev, limiter, conf, team, inv>>

\* everything but the memberships and their requests
others == <<base, mailv, norm, cachev, limiter, conf>>

pipeline == <<others, inv>>

(***************************************************************************)
(* Bounds                                                                  *)
(***************************************************************************)
MaxReqs == 2

MaxCalls == 2

Reqs == 1..MaxReqs

Calls == 1..MaxCalls

Projects == {1, 2}

FormKeys == {"lead", "donation", "booking", "feedback"}

NoToken == ""

Tokens == {NoToken, "t1"}

None == <<>>

Unknown == <<"U", "n", "k", "n", "o", "w", "n">>

(***************************************************************************)
(* Text helpers                                                            *)
(***************************************************************************)
IsSpace(c) == c = " "

IsDigit(c) == c \in {"0", "1", "2"}

Lower(c) ==
  CASE c = "A" -> "a"
    [] c = "B" -> "b"
    [] c = "U" -> "u"
    [] OTHER -> c

RECURSIVE TrimStart(_)
TrimStart(s) ==
  IF s = <<>> THEN <<>>
  ELSE IF IsSpace(Head(s)) THEN TrimStart(Tail(s)) ELSE s

RECURSIVE TrimEnd(_)
TrimEnd(s) ==
  IF s = <<>> THEN <<>>
  ELSE IF IsSpace(s[Len(s)]) THEN TrimEnd(SubSeq(s, 1, Len(s) - 1)) ELSE s

Trim(s) == TrimEnd(TrimStart(s))

Slice(s, n) == IF Len(s) > n THEN SubSeq(s, 1, n) ELSE s

RECURSIVE Digits(_)
Digits(s) ==
  IF s = <<>> THEN <<>>
  ELSE IF IsDigit(Head(s)) THEN <<Head(s)>> \o Digits(Tail(s)) ELSE Digits(Tail(s))

normalizeEmail_OneSpace(input) ==
  LET v == IF input # <<>> /\ IsSpace(Head(input)) THEN Tail(input) ELSE input
  IN [k \in 1..Len(v) |-> Lower(v[k])]

\* normalizeEmail / normalizeEmailOptional: trim + lowercase
normalizeEmail(input) ==
  LET v == Trim(input) IN [k \in 1..Len(v) |-> Lower(v[k])]

\* utils/normalizePhone: digits, and a plus when the trimmed input starts with one
normalizePhone(input) ==
  LET v == Trim(input)
      digits == Digits(v)
  IN IF v = <<>> THEN <<>>
     ELSE IF digits = <<>> THEN <<>>
     ELSE IF Head(v) = "+" THEN <<"+">> \o digits ELSE digits

\* routes/public.ts normalizePhone: v.replace(/(?!^\+)\D+/g, '')
\* a '+' at position 0 is kept, every other non-digit is dropped
normalizePhoneLocal(raw) ==
  LET v == Trim(raw)
  IN IF v = <<>> THEN <<>>
     ELSE IF Head(v) = "+" THEN <<"+">> \o Digits(Tail(v)) ELSE Digits(v)

\* routes/public.ts normalizeText
normalizeText(raw) == Trim(raw)

computeContactName(name, email, phone) ==
  IF Trim(name) # <<>> THEN Slice(Trim(name), 255)
  ELSE IF Trim(email) # <<>> THEN Slice(Trim(email), 255)
  ELSE IF Trim(phone) # <<>> THEN Slice(Trim(phone), 255)
  ELSE Unknown

(***************************************************************************)
(* Storage: tables and the unique indexes of the migrations                *)
(***************************************************************************)
ContactRow(projectId, name, email, phone, notes, emailNormalized, phoneNormalized, by) ==
  [projectId |-> projectId, name |-> name, email |-> email, phone |-> phone,
   notes |-> notes, emailNormalized |-> emailNormalized,
   phoneNormalized |-> phoneNormalized, by |-> by]

CaseRow(projectId, contactId, formKey, clientRequestId, by) ==
  [projectId |-> projectId, contactId |-> contactId, formKey |-> formKey,
   clientRequestId |-> clientRequestId, by |-> by]

TransactionRow_Unlinked(projectId, contactId, caseId, formKey) ==
  [projectId |-> projectId, contactId |-> contactId, caseId |-> 0,
   formKey |-> formKey]

TransactionRow(projectId, contactId, caseId, formKey) ==
  [projectId |-> projectId, contactId |-> contactId, caseId |-> caseId,
   formKey |-> formKey]

CaseUniqueViolation_NoIndex(row) == FALSE

\* Case_projectId_clientRequestId_key (NULLs never collide)
CaseUniqueViolation(row) ==
  /\ row.clientRequestId # NoToken
  /\ \E k \in DOMAIN cases :
       /\ cases[k].projectId = row.projectId
       /\ cases[k].clientRequestId = row.clientRequestId

ContactUniqueViolation_NoIndex(row, self) == FALSE

\* Contact_projectId_email_normalized_key, Contact_projectId_phone_normalized_key;
\* self is the id of the row being updated (0 for an insert)
ContactUniqueViolation(row, self) ==
  \E k \in DOMAIN contacts :
    /\ k # self
    /\ contacts[k].projectId = row.projectId
    /\ \/ /\ row.emailNormalized # None
          /\ contacts[k].emailNormalized = row.emailNormalized
       \/ /\ row.phoneNormalized # None
          /\ contacts[k].phoneNormalized = row.phoneNormalized

CasesByToken_AnyTenant(projectId, token) ==
  {k \in DOMAIN cases : cases[k].clientRequestId = token}

\* prisma.case.findFirst({ where: { projectId, clientRequestId } })
CasesByToken(projectId, token) ==
  {k \in DOMAIN cases :
     cases[k].projectId = projectId /\ cases[k].clientRequestId = token}

SetMax(S) == IF S = {} THEN 0 ELSE CHOOSE m \in S : \A n \in S : n <= m

\* prisma.transaction.findFirst({ where: { projectId, caseId }, orderBy: { id: 'desc' } })
TxByCase(projectId, caseId) ==
  SetMax({t \in DOMAIN transactions :
            transactions[t].projectId = projectId /\ transactions[t].caseId = caseId})

\* the same lookup narrowed by publicFormId
TxByCaseAndForm(projectId, caseId, formKey) ==
  SetMax({t \in DOMAIN transactions :
            /\ transactions[t].projectId = projectId
            /\ transactions[t].caseId = caseId
            /\ transactions[t].formKey = formKey})

\* prisma.contact.findFirst({ where: { projectId, email } })
ContactsByEmail(projectId, email) ==
  {k \in DOMAIN contacts :
     contacts[k].projectId = projectId /\ contacts[k].email = email}

ContactsByEmailNormalized(projectId, emailNorm) ==
  {k \in DOMAIN contacts :
     contacts[k].projectId = projectId /\ contacts[k].emailNormalized = emailNorm}

ContactsByPhoneNormalized(projectId, phoneNorm) ==
  {k \in DOMAIN contacts :
     contacts[k].projectId = projectId /\ contacts[k].phoneNormalized = phoneNorm}

(***************************************************************************)
(* Trust Gate: requirePublicProject(req, res, projectSlug)                 *)
(***************************************************************************)
\* absent header
NoHeader == ""

Slugs == {"s1", "nope"}

\* prisma.project.findUnique({ where: { slug } }): the project id, 0 for null
ProjectBySlug(slug) ==
  IF slug = "s1" THEN 1 ELSE IF slug = "s2" THEN 2 ELSE 0

\* project.publicKey
PublicKey(p) == IF p = 1 THEN "k1" ELSE "k2"

Keys == {NoHeader, "k1", "k2"}

\* origins as the allowlist stores them
Origins == {"o1", "o2"}

\* values of the Origin header: absent, two origins, an origin with a
\* trailing slash
OriginHeaders == {NoHeader, "o1", "o1/", "o2"}

\* values of the Referer header: absent, a page of each origin, no URL
Referers == {NoHeader, "o1/page", "o2/page", "junk"}

Methods == {"GET", "POST"}

\* Authorization header: none, a session of a member of project 1, of a
\* member of project 2, of a former member of project 1
Bearers == {"none", "staff1", "staff2", "gone1"}

\* new URL(referer).origin; NoHeader when the constructor throws
UrlOrigin(referer) ==
  IF referer = "o1/page" THEN "o1"
  ELSE IF referer = "o2/page" THEN "o2"
  ELSE NoHeader

GateInput(slug, key, origin, referer, method, allowNoOrigin, bearer) ==
  [slug |-> slug, key |-> key, origin |-> origin, referer |-> referer,
   method |-> method, allowNoOrigin |-> allowNoOrigin, bearer |-> bearer]

GateInputs ==
  {GateInput(s, k, o, r, m, a, b) :
     s \in Slugs, k \in Keys, o \in OriginHeaders, r \in Referers,
     m \in Methods, a \in BOOLEAN, b \in Bearers}

\* prisma.projectAllowedOrigin.findMany({ where: { projectId } }).map(r => r.origin)
Allowed(p) == {o \in Origins : <<p, o>> \in origins}

KeyStatus_AnyKey(project, key) ==
  IF project = 0 THEN 404 ELSE IF key = NoHeader THEN 403 ELSE 0

\* the answer of the slug and key checks: 404, 403, or 0 to go on
KeyStatus(project, key) ==
  IF project = 0 THEN 404
  ELSE IF key = NoHeader \/ key # PublicKey(project) THEN 403
  ELSE 0

\* match = (origin && allowed.includes(origin)) || (refOrigin && allowed.includes(refOrigin))
OriginMatch(allowed, origin, refOrigin) ==
  \/ origin # NoHeader /\ origin \in allowed
  \/ refOrigin # NoHeader /\ refOrigin \in allowed

OriginStatus_PostNoOrigin(allowed, origin, referer, method, allowNoOrigin) ==
  IF allowed = {} THEN 0
  ELSE IF origin = NoHeader /\ UrlOrigin(referer) = NoHeader THEN 0
  ELSE IF ~OriginMatch(allowed, origin, UrlOrigin(referer)) THEN 403
  ELSE 0

\* the answer of the allowlist check: 403, or 0 to admit
OriginStatus(allowed, origin, referer, method, allowNoOrigin) ==
  IF allowed = {} THEN 0
  ELSE IF origin = NoHeader /\ UrlOrigin(referer) = NoHeader
       THEN IF method = "GET" \/ allowNoOrigin THEN 0 ELSE 403
  ELSE IF ~OriginMatch(allowed, origin, UrlOrigin(referer)) THEN 403
  ELSE 0

NoGateInput == GateInput(NoHeader, NoHeader, NoHeader, NoHeader, "", FALSE, "none")

\* one invocation of requirePublicProject: its input, the project and the
\* allowlist it read, and its answer (0: the project is returned)
IdleGate ==
  [pc |-> "idle", in |-> NoGateInput, project |-> 0, allowed |-> {},
   status |-> 0]

\* a public endpoint calls the gate
Require ==
  /\ gate.pc = "idle"
  /\ \E g \in GateInputs :
       gate' = [IdleGate EXCEPT !.pc = "project", !.in = g]
  /\ UNCHANGED <<db, req, call, origins, forms, seed, val, side>>

\* project.findUnique, then the slug and key checks
FindProject ==
  /\ gate.pc = "project"
  /\ LET p == ProjectBySlug(gate.in.slug)
         st == KeyStatus(p, gate.in.key)
     IN gate' = IF st # 0
                THEN [gate EXCEPT !.pc = "done", !.status = st]
                ELSE [gate EXCEPT !.pc = "allowlist", !.project = p]
  /\ UNCHANGED <<db, req, call, origins, forms, seed, val, side>>

\* projectAllowedOrigin.findMany, then the origin checks
FindAllowlist ==
  /\ gate.pc = "allowlist"
  /\ LET allowed == Allowed(gate.project)
     IN gate' = [gate EXCEPT !.pc = "done", !.allowed = allowed,
                             !.status = OriginStatus(allowed, gate.in.origin,
                                                     gate.in.referer,
                                                     gate.in.method,
                                                     gate.in.allowNoOrigin)]
  /\ UNCHANGED <<db, req, call, origins, forms, seed, val, side>>

\* POST /projects/current/allowed-origins by staff of project p
AddOrigin(p, o) ==
  /\ <<p, o>> \notin origins
  /\ origins' = origins \cup {<<p, o>>}
  /\ UNCHANGED <<db, req, call, gate, forms, seed, val, side>>

\* DELETE /projects/current/allowed-origins/:id by staff of project p
DeleteOrigin(p, o) ==
  /\ <<p, o>> \in origins
  /\ origins' = origins \ {<<p, o>>}
  /\ UNCHANGED <<db, req, call, gate, forms, seed, val, side>>

(***************************************************************************)
(* POST /public/forms/:projectSlug/:formKey                                *)
(***************************************************************************)
Body(name, email, phone, message, amount) ==
  [name |-> name, email |-> email, phone |-> phone, message |-> message,
   amount |-> amount]

\* request bodies: a field that is None is a key the body does not carry,
\* amount 0 is a missing amount
Bodies ==
  { Body(<<"B">>, <<"A">>, <<"1", "-">>, None, 5),
    Body(None, <<"a">>, None, <<"m">>, 5),
    Body(None, None, None, <<"m">>, 0) }

\* the request ids of a request: X-Request-Id, X-Client-Request-Id and
\* body.clientRequestId, NoHeader where the request carries none
NoIds == <<NoHeader, NoHeader, NoHeader>>

\* an id of 129 characters
LongId == "long"

IdLength(id) == IF id = LongId THEN 129 ELSE IF id = NoHeader THEN 0 ELSE 2

MaxIdLength == 128

\* getHeader(req, 'X-Request-Id') || getHeader(req, 'X-Client-Request-Id')
\* || body.clientRequestId
ClientRequestId(ids) ==
  IF ids[1] # NoHeader THEN ids[1]
  ELSE IF ids[2] # NoHeader THEN ids[2] ELSE ids[3]

NormalizedClientRequestId_NoCap(ids) == ClientRequestId(ids)

\* clientRequestId && clientRequestId.length <= 128 ? clientRequestId : undefined
NormalizedClientRequestId(ids) ==
  IF ClientRequestId(ids) # NoHeader
     /\ IdLength(ClientRequestId(ids)) <= MaxIdLength
  THEN ClientRequestId(ids) ELSE NoToken

\* a request id in the preferred header
TokenIds == {NoIds, <<"t1", NoHeader, NoHeader>>}

\* also one in the body only, and one over the cap ahead of a usable one
RequestIds ==
  TokenIds \cup {<<NoHeader, NoHeader, "t1">>, <<LongId, "t1", NoHeader>>}

IdleReq ==
  [pc |-> "idle", projectId |-> 0, formKey |-> "", token |-> NoToken,
   body |-> Body(None, None, None, None, 0), sawCase |-> 0, contact |-> 0,
   status |-> 0, idempotent |-> FALSE, rContact |-> 0, rCase |-> 0, rTx |-> 0,
   path |-> "", gin |-> NoGateInput, gAllowed |-> {}, sawForm |-> "",
   details |-> {}, ids |-> NoIds, hp |-> None]

\* the zod schemas: one of name / email / phone, amount for donation,
\* message for feedback
ValidBody(formKey, body) ==
  /\ \/ Trim(body.name) # None
     \/ Trim(body.email) # None
     \/ Trim(body.phone) # None
  /\ formKey = "donation" => body.amount > 0
  /\ formKey = "feedback" => body.message # None

Details_None(formKey, body) == {}

\* error.errors of the ZodError, as the set of the paths of its issues: a
\* field of the wrong type aborts the parse of the object before its refine
\* runs; the refine reports its issue at path name
Details(formKey, body) ==
  LET typed == {f \in {"amount", "message"} :
                  \/ f = "amount" /\ formKey = "donation" /\ ~(body.amount > 0)
                  \/ f = "message" /\ formKey = "feedback" /\ body.message = None}
  IN IF typed # {} THEN typed
     ELSE IF Trim(body.name) = None /\ Trim(body.email) = None
             /\ Trim(body.phone) = None
     THEN {"name"} ELSE {}

ReqName(i) == normalizeText(req[i].body.name)

ReqEmail(i) == normalizeText(req[i].body.email)

ReqPhone(i) == normalizePhoneLocal(req[i].body.phone)

ReqMessage(i) == normalizeText(req[i].body.message)

\* res.status(...).json(...): the handler returns, its locals are gone
Answer(r, status, idempotent, rContact, rCase, rTx, path) ==
  [r EXCEPT !.pc = "done", !.contact = 0, !.status = status,
            !.idempotent = idempotent, !.rContact = rContact,
            !.rCase = rCase, !.rTx = rTx, !.path = path]

Respond(i, status, idempotent, rContact, rCase, rTx, path) ==
  req' = [req EXCEPT ![i] =
            Answer(@, status, idempotent, rContact, rCase, rTx, path)]

Goto(i, pc) == req' = [req EXCEPT ![i].pc = pc]

\* after the in-branch lookups: lead always creates a contact, the other
\* forms look one up by email when the body has an email
AfterLookup(formKey, email) ==
  IF formKey = "lead" THEN "contactCreate"
  ELSE IF email # None THEN "contactFind" ELSE "contactCreate"

\* lead, donation and booking look the token up again, feedback does not
AfterForm(formKey, token, email) ==
  IF formKey \in {"lead", "donation", "booking"} /\ token # NoToken
  THEN "lookup1"
  ELSE AfterLookup(formKey, email)

\* PublicForm rows: the state of the row of (projectId, formKey)
FormState(projectId, formKey) ==
  IF <<projectId, formKey>> \in DOMAIN forms
  THEN forms[<<projectId, formKey>>] ELSE "absent"

FormOpen_Always(projectId, formKey) == TRUE

\* publicForm.findFirst({ where: { projectId, formKey, isActive: true } }) finds a row
FormOpen(projectId, formKey) == FormState(projectId, formKey) = "active"

\* parsed.__hp && parsed.__hp.trim().length > 0
Honeypot(hp) == Trim(hp) # None

\* the branch of the form key up to its first read of Case or Contact:
\* no branch for the form key answers 404; schema.parse(req.body) answers 400
\* on a ZodError; a filled honeypot answers 202; publicForm.findFirst
\* answers 410 when it finds no active row.  project.findUnique reads rows that no step writes, and the read of
\* the form row commutes with every step between it and the read before it,
\* so they take no step of their own
EnterBranch(r) ==
  IF r.formKey \notin FormKeys
  THEN Answer(r, 404, FALSE, 0, 0, 0, "unknown")
  ELSE IF ~ValidBody(r.formKey, r.body)
  THEN [Answer(r, 400, FALSE, 0, 0, 0, "invalid")
          EXCEPT !.details = Details(r.formKey, r.body)]
  ELSE IF Honeypot(r.hp)
  THEN Answer(r, 202, FALSE, 0, 0, 0, "honeypot")
  ELSE IF ~FormOpen(r.projectId, r.formKey)
  THEN Answer(r, 410, FALSE, 0, 0, 0, "disabled")
  ELSE [r EXCEPT !.pc = AfterForm(r.formKey, r.token, normalizeText(r.body.email))]

\* projects are interchangeable: a request goes to a project already used
\* or to the next unused one
ProjectsInUse ==
  ({req[j].projectId : j \in Reqs} \cup {call[d].projectId : d \in DOMAIN call}
   \cup {contacts[k].projectId : k \in DOMAIN contacts}) \ {0}

NextProjects == {p \in Projects : p <= SetMax(ProjectsInUse) + 1}

HasPreCheck_Never(token) == FALSE

\* if (normalizedClientRequestId) { existingCase = ... }
HasPreCheck(token) == token # NoToken

\* a request arrives; requests are numbered in order of arrival.
\* sawCase records the Case the token identified on arrival (0: none).
Start(i) ==
  /\ req[i].pc = "idle"
  /\ i > 1 => req[i - 1].pc # "idle"
  /\ \E p \in NextProjects, f \in FormKeys, t \in Tokens, b \in Bodies :
       LET r == [IdleReq EXCEPT !.projectId = p, !.formKey = f, !.token = t,
                                !.body = b,
                                !.sawCase = IF t # NoToken
                                            THEN SetMax(CasesByToken(p, t)) ELSE 0]
       IN req' = [req EXCEPT ![i] = IF HasPreCheck(t)
                                    THEN [r EXCEPT !.pc = "precheck"]
                                    ELSE EnterBranch(r)]
  /\ UNCHANGED <<db, call, ext>>

\* values of the hidden field __hp of a body
HpValues == {None, <<" ">>, <<"x">>}

\* a request arrives whose body may carry the hidden field __hp
Offer(i) ==
  /\ req[i].pc = "idle"
  /\ i > 1 => req[i - 1].pc # "idle"
  /\ \E p \in NextProjects, f \in FormKeys, t \in Tokens, b \in Bodies,
        hp \in HpValues :
       LET r == [IdleReq EXCEPT !.projectId = p, !.formKey = f, !.token = t,
                                !.body = b, !.hp = hp,
                                !.sawCase = IF t # NoToken
                                            THEN SetMax(CasesByToken(p, t)) ELSE 0]
       IN req' = [req EXCEPT ![i] = IF HasPreCheck(t)
                                    THEN [r EXCEPT !.pc = "precheck"]
                                    ELSE EnterBranch(r)]
  /\ UNCHANGED <<db, call, ext>>

PreCheck_Miss(i) ==
  /\ req[i].pc = "precheck"
  /\ req' = [req EXCEPT ![i] = EnterBranch(@)]
  /\ UNCHANGED <<db, call, ext>>

ExistingCase_SameForm(r) ==
  {k \in CasesByToken(r.projectId, r.token) : cases[k].formKey = r.formKey}

\* where: { projectId: projectGuard.id, clientRequestId: normalizedClientRequestId }
ExistingCase(r) == CasesByToken(r.projectId, r.token)

\* existingCase = findFirst(...); if (existingCase) return 200, idempotent
PreCheck(i) ==
  /\ req[i].pc = "precheck"
  /\ LET found == ExistingCase(req[i])
     IN IF found = {}
        THEN req' = [req EXCEPT ![i] = EnterBranch(@)]
        ELSE \E k \in found :
               Respond(i, 200, TRUE, cases[k].contactId, k,
                       IF req[i].formKey = "donation"
                       THEN TxByCase(req[i].projectId, k) ELSE 0,
                       "precheck")
  /\ UNCHANGED <<db, call, ext>>

\* the lookup inside the branch answers 200 without the idempotent flag
InBranchLookup(i, pc, next) ==
  /\ req[i].pc = pc
  /\ LET found == CasesByToken(req[i].projectId, req[i].token)
     IN IF found = {}
        THEN Goto(i, next)
        ELSE \E k \in found :
               Respond(i, 200, FALSE, cases[k].contactId, k,
                       IF req[i].formKey = "donation"
                       THEN TxByCaseAndForm(req[i].projectId, k, req[i].formKey)
                       ELSE 0,
                       "lookup")
  /\ UNCHANGED <<db, call, ext>>

Lookup1(i) ==
  InBranchLookup(i, "lookup1",
                 IF req[i].formKey = "lead" THEN "lookup2"
                 ELSE AfterLookup(req[i].formKey, ReqEmail(i)))

\* the lead branch repeats the lookup
Lookup2(i) ==
  InBranchLookup(i, "lookup2", AfterLookup(req[i].formKey, ReqEmail(i)))

\* donation, booking, feedback: contact.findFirst({ where: { projectId, email } })
ContactFind(i) ==
  /\ req[i].pc = "contactFind"
  /\ LET found == ContactsByEmail(req[i].projectId, ReqEmail(i))
     IN IF found = {}
        THEN Goto(i, "contactCreate")
        ELSE \E k \in found :
               req' = [req EXCEPT ![i].pc = "caseCreate", ![i].contact = k]
  /\ UNCHANGED <<db, call, ext>>

\* the data of prisma.contact.create in the four branches
NewContactRow(i) ==
  ContactRow(req[i].projectId,
             computeContactName(ReqName(i), ReqEmail(i), ReqPhone(i)),
             ReqEmail(i), ReqPhone(i),
             IF req[i].formKey = "feedback" THEN None ELSE ReqMessage(i),
             None, None, i)

ContactCreate(i) ==
  /\ req[i].pc = "contactCreate"
  /\ IF ContactUniqueViolation(NewContactRow(i), 0)
     THEN /\ Respond(i, 500, FALSE, 0, 0, 0, "error")
          /\ UNCHANGED contacts
     ELSE /\ contacts' = Append(contacts, NewContactRow(i))
          /\ req' = [req EXCEPT ![i].pc = "caseCreate",
                                ![i].contact = Len(contacts) + 1]
  /\ UNCHANGED <<cases, transactions, call, ext>>

NewCaseRow(i) ==
  CaseRow(req[i].projectId, req[i].contact, req[i].formKey, req[i].token, i)

RecoversConflict_Never(token, isUnique) == FALSE

\* catch: if (normalizedClientRequestId && isPrismaUniqueConstraintError(err))
RecoversConflict(token, isUnique) == token # NoToken /\ isUnique

\* case.create; for donation $transaction(case.create, transaction.create)
CaseCreate(i) ==
  /\ req[i].pc = "caseCreate"
  /\ IF CaseUniqueViolation(NewCaseRow(i))
     THEN /\ IF RecoversConflict(req[i].token, TRUE)
             THEN Goto(i, "reread")
             ELSE Respond(i, 500, FALSE, 0, 0, 0, "error")
          /\ UNCHANGED <<cases, transactions>>
     ELSE /\ cases' = Append(cases, NewCaseRow(i))
          /\ transactions' =
               IF req[i].formKey = "donation"
               THEN Append(transactions,
                           TransactionRow(req[i].projectId, req[i].contact,
                                          Len(cases) + 1, req[i].formKey))
               ELSE transactions
          /\ Respond(i, 201, FALSE, req[i].contact, Len(cases) + 1,
                     IF req[i].formKey = "donation"
                     THEN Len(transactions) + 1 ELSE 0,
                     "created")
  /\ UNCHANGED <<contacts, call, ext>>

\* the catch block re-reads the Case that won
Reread(i) ==
  /\ req[i].pc = "reread"
  /\ LET found == CasesByToken(req[i].projectId, req[i].token)
     IN IF found = {}
        THEN Respond(i, 500, FALSE, 0, 0, 0, "error")
        ELSE \E k \in found :
               Respond(i, 200, TRUE, cases[k].contactId, k,
                       IF req[i].formKey = "donation"
                       THEN TxByCaseAndForm(req[i].projectId, k, req[i].formKey)
                       ELSE 0,
                       "conflict")
  /\ UNCHANGED <<db, call, ext>>

(***************************************************************************)
(* The public endpoints behind the Trust Gate, and the staff form routes   *)
(***************************************************************************)
\* form keys of request paths: built-in forms and a key no branch handles
PathKeys == {"lead", "donation", "feedback", "other"}

\* requests as the gate sees them: an allowed Origin, another tenant's key,
\* an unknown slug, an Origin that is not on the allowlist
PublicInputs ==
  {GateInput(g[1], g[2], g[3], NoHeader, m, FALSE, "none") :
     g \in {<<"s1", "k1", "o1">>, <<"s1", "k2", "o1">>,
            <<"nope", "k1", "o1">>, <<"s1", "k1", "o2">>},
     m \in Methods}

\* the requests among them that the gate admits whatever the allowlist holds
AdmittedInputs ==
  {g \in PublicInputs : g.slug = "s1" /\ g.key = "k1" /\ g.origin = "o1"}

\* requirePublicProject as one read: its answer from the request and the
\* allowlist read (0: the project is returned)
GateVerdict(g, allowed) ==
  IF KeyStatus(ProjectBySlug(g.slug), g.key) # 0
  THEN KeyStatus(ProjectBySlug(g.slug), g.key)
  ELSE OriginStatus(allowed, g.origin, g.referer, g.method, g.allowNoOrigin)

Stops_Never(status) == FALSE

\* if (!project) return;  if (!projectGuard) return;
Stops(status) == status # 0

\* a request reaches GET .../config or POST /forms/:projectSlug/:formKey and
\* passes the gate first.  sawForm records the state of the form row on
\* arrival.  The gate reads the immutable project row and the allowlist once,
\* so its reads take no step of their own
Submit(i, inputs, idsets) ==
  /\ req[i].pc = "idle"
  /\ i > 1 => req[i - 1].pc # "idle"
  /\ \E g \in inputs, f \in PathKeys, c \in idsets,
        b \in Bodies \cup {IdleReq.body} :
       /\ g.method = "GET" => (c = NoIds /\ b = IdleReq.body)
       /\ g.method = "POST" => b \in Bodies
       /\ LET p == ProjectBySlug(g.slug)
              t == NormalizedClientRequestId(c)
              allowed == IF KeyStatus(p, g.key) = 0 THEN Allowed(p) ELSE {}
              st == GateVerdict(g, allowed)
              r == [IdleReq EXCEPT !.projectId = p, !.formKey = f, !.token = t,
                                   !.body = b, !.gin = g, !.gAllowed = allowed,
                                   !.ids = c,
                                   !.sawForm = FormState(p, f),
                                   !.sawCase = IF t # NoToken
                                               THEN SetMax(CasesByToken(p, t))
                                               ELSE 0]
          IN req' = [req EXCEPT ![i] =
                       IF Stops(st) THEN Answer(r, st, FALSE, 0, 0, 0, "gate")
                       ELSE IF g.method = "GET" THEN [r EXCEPT !.pc = "config"]
                       ELSE IF HasPreCheck(t) THEN [r EXCEPT !.pc = "precheck"]
                       ELSE EnterBranch(r)]
  /\ UNCHANGED <<db, call, ext>>

\* GET config: publicForm.findFirst({ where: { projectId, formKey } })
Config(i) ==
  /\ req[i].pc = "config"
  /\ IF FormState(req[i].projectId, req[i].formKey) = "absent"
     THEN Respond(i, 404, FALSE, 0, 0, 0, "noform")
     ELSE Respond(i, 200, FALSE, 0, 0, 0, "config")
  /\ UNCHANGED <<db, call, ext>>

\* a request that has not read its form row yet no longer knows the row it
\* saw on arrival
Unsee(p, f) ==
  [i \in Reqs |->
     IF req[i].pc \in {"precheck", "config"} /\ req[i].projectId = p
        /\ req[i].formKey = f
     THEN [req[i] EXCEPT !.sawForm = "changed"] ELSE req[i]]

\* the staff whose routes are modelled belong to this project
StaffProject == 1

\* const defaults = [lead, donation, booking, feedback]
SeedOrder == <<"lead", "donation", "booking", "feedback">>

\* POST /public-forms/seed, one pass of its loop: findFirst, then create
\* when the row is missing (an existing row keeps its isActive).
\* seed counts the rows the running request has handled
SeedStep ==
  LET f == SeedOrder[seed + 1]
      k == <<StaffProject, f>>
  IN /\ forms' = IF forms[k] = "absent" THEN [forms EXCEPT ![k] = "active"]
                 ELSE forms
     /\ req' = IF forms[k] = "absent" THEN Unsee(StaffProject, f) ELSE req
     /\ seed' = IF seed + 1 = Len(SeedOrder) THEN 0 ELSE seed + 1
     /\ UNCHANGED <<db, call, gate, origins, val, side>>

\* PATCH /public-forms/:id { isActive }: updateMany where id and projectId
Patch(f, isActive) ==
  LET k == <<StaffProject, f>>
      to == IF isActive THEN "active" ELSE "inactive"
  IN /\ forms[k] # "absent"
     /\ forms[k] # to
     /\ forms' = [forms EXCEPT ![k] = to]
     /\ req' = Unsee(StaffProject, f)
     /\ UNCHANGED <<db, call, gate, origins, seed, val, side>>

(***************************************************************************)
(* schema.parse(req.body): the zod schemas on the raw JSON body            *)
(***************************************************************************)
\* raw JSON values; a key the body does not carry reads as undefined
Undefined == [kind |-> "undefined", text |-> <<>>, num |-> 0]

Null == [kind |-> "null", text |-> <<>>, num |-> 0]

Str(text) == [kind |-> "string", text |-> text, num |-> 0]

Num(n) == [kind |-> "number", text |-> <<>>, num |-> n]

\* JSON has no NaN: NaN arises when a value is coerced to a number
RawValues ==
  {Undefined, Null, Str(<<>>), Str(<<" ", " ">>), Str(<<"m">>), Str(<<"5">>),
   Num(5), Num(0)}

DecDigits == <<"0", "1", "2", "3", "4", "5", "6", "7", "8", "9">>

IsDecimal(text) == \A k \in DOMAIN text : \E n \in DOMAIN DecDigits : DecDigits[n] = text[k]

RECURSIVE DecValue(_)
DecValue(text) ==
  IF text = <<>> THEN 0
  ELSE 10 * DecValue(SubSeq(text, 1, Len(text) - 1))
       + (CHOOSE n \in DOMAIN DecDigits : DecDigits[n] = text[Len(text)]) - 1

\* Number(x) of JavaScript: [nan, n]
ToNumber(raw) ==
  IF raw.kind = "number" THEN [nan |-> FALSE, n |-> raw.num]
  ELSE IF raw.kind = "null" THEN [nan |-> FALSE, n |-> 0]
  ELSE IF raw.kind = "string" /\ IsDecimal(Trim(raw.text))
  THEN [nan |-> FALSE, n |-> DecValue(Trim(raw.text))]
  ELSE [nan |-> TRUE, n |-> 0]

\* z.string().trim().max(max): "fatal" for a value that is not a string,
\* which aborts the parse of the object, else "dirty" or "ok"
ParseString(raw, max) ==
  IF raw.kind # "string" THEN "fatal"
  ELSE IF Len(Trim(raw.text)) > max THEN "dirty" ELSE "ok"

\* the same with .optional()
ParseOptionalString(raw, max) ==
  IF raw.kind = "undefined" THEN "ok" ELSE ParseString(raw, max)

\* z.coerce.number().positive().max(1_000_000)
ParseAmount(raw) ==
  IF ToNumber(raw).nan THEN "fatal"
  ELSE IF ToNumber(raw).n <= 0 \/ ToNumber(raw).n > 1000000 THEN "dirty"
  ELSE "ok"

RawBody(name, message, amount) ==
  [name |-> name, message |-> message, amount |-> amount]

\* the parse of each field of the body by the schema of the form; the body
\* carries no email and no phone.  A key that is not in the schema is stripped
FieldResults(formKey, body) ==
  [name |-> ParseOptionalString(body.name, 100),
   message |-> IF formKey = "feedback" THEN ParseString(body.message, 2000)
               ELSE ParseOptionalString(body.message, 2000),
   amount |-> IF formKey = "donation" THEN ParseAmount(body.amount) ELSE "ok"]

\* the value of name the refine sees: data.name is truthy
NameGiven(body) == body.name.kind = "string" /\ Trim(body.name.text) # <<>>

\* the paths of the issues of the ZodError, {} when the parse succeeds: the
\* refine runs unless a field aborted the parse
Issues(formKey, body) ==
  LET res == FieldResults(formKey, body)
      bad == {f \in DOMAIN res : res[f] # "ok"}
  IN IF \E f \in DOMAIN res : res[f] = "fatal" THEN bad
     ELSE IF NameGiven(body) THEN bad ELSE bad \cup {"name"}

\* the fields the schema of the form does not mark .optional()
RequiredFields(formKey) ==
  IF formKey = "feedback" THEN {"message"}
  ELSE IF formKey = "donation" THEN {"amount"} ELSE {}

IdleVal ==
  [pc |-> "idle", formKey |-> "", body |-> RawBody(Undefined, Undefined, Undefined),
   issues |-> {}]

\* a body reaches the branch of its form
Receive ==
  /\ val.pc = "idle"
  /\ \E f \in FormKeys, n \in {Undefined, Str(<<"B">>), Str(<<" ">>)},
        m \in RawValues, a \in RawValues :
       val' = [IdleVal EXCEPT !.pc = "received", !.formKey = f,
                              !.body = RawBody(n, m, a)]
  /\ UNCHANGED <<db, req, call, gate, origins, forms, seed, side>>

\* const parsed = schema.parse(req.body)
Parse ==
  /\ val.pc = "received"
  /\ val' = [val EXCEPT !.pc = "parsed", !.issues = Issues(val.formKey, val.body)]
  /\ UNCHANGED <<db, req, call, gate, origins, forms, seed, side>>

(***************************************************************************)
(* services/mailer: sendNotificationMail, awaited by the submit handler    *)
(* between case.create and res.status(201)                                 *)
(***************************************************************************)
MaxSubs == 2

Subs == 1..MaxSubs

\* the two mailers of the repository: services/mailer.ts checks the
\* transporter at once, the other awaits its verification for 3000 ms
Impls == {"plain", "timeout"}

\* impl "": the server is not started; configured: the SMTP_* variables are
\* set; verifying: transporter.verify has not called back yet; promise:
\* mailerReadyPromise ("none", "pending", "true", "false")
IdleMail ==
  [impl |-> "", configured |-> FALSE, transporter |-> FALSE,
   mailerReady |-> FALSE, mailerError |-> FALSE, verifying |-> FALSE,
   promise |-> "none"]

\* stored: the Case of the submission is committed
IdleSub == [pc |-> "idle", stored |-> FALSE, status |-> 0]

\* the process starts with one of the mailers and an environment
StartServer ==
  /\ mail.impl = ""
  /\ \E i \in Impls, c \in BOOLEAN :
       mail' = [mail EXCEPT !.impl = i, !.configured = c]
  /\ UNCHANGED <<main, subs>>

\* ensureTransporter returns without touching the transporter
Settled(m) ==
  IF m.impl = "plain" THEN m.transporter \/ m.mailerReady
  ELSE m.mailerReady \/ m.promise # "none"

\* ensureTransporter when nodemailer.createTransport returns
ensureTransporter(m) ==
  IF Settled(m) THEN m
  ELSE IF ~m.configured
  THEN [m EXCEPT !.mailerError = TRUE,
                 !.promise = IF m.impl = "timeout" THEN "false" ELSE @]
  ELSE [m EXCEPT !.transporter = TRUE, !.verifying = TRUE,
                 !.promise = IF m.impl = "timeout" THEN "pending" ELSE @]

\* ensureTransporter reaches nodemailer.createTransport
Constructs(m) == ~Settled(m) /\ m.configured

\* if (!ready || !transporter || !mailerReady) { ... return; }
Disabled(ready, m) == ~ready \/ ~m.transporter \/ ~m.mailerReady

Reply(s, status) == subs' = [subs EXCEPT ![s].pc = "done", ![s].status = status]

\* case.create commits; the handler goes on to notify when the project
\* wants notifications, has recipients and the request is no smoke request,
\* else it answers 201
Commit(s) ==
  /\ mail.impl # ""
  /\ subs[s].pc = "idle"
  /\ s > 1 => subs[s - 1].pc # "idle"
  /\ \E notify \in BOOLEAN :
       subs' = [subs EXCEPT ![s] =
                  IF notify THEN [pc |-> "send", stored |-> TRUE, status |-> 0]
                  ELSE [pc |-> "done", stored |-> TRUE, status |-> 201]]
  /\ UNCHANGED <<main, mail>>

\* await sendNotificationMail(...), up to its first await.  A throw of
\* createTransport rejects the call and the handler's catch answers 500
Notify(s) ==
  /\ subs[s].pc = "send"
  /\ \/ /\ mail' = ensureTransporter(mail)
        /\ IF mail.impl = "timeout"
           THEN subs' = [subs EXCEPT ![s].pc = "waitReady"]
           ELSE IF Disabled(TRUE, mail')
           THEN Reply(s, 201)
           ELSE subs' = [subs EXCEPT ![s].pc = "sending"]
     \/ /\ Constructs(mail)
        /\ Reply(s, 500)
        /\ UNCHANGED mail
  /\ UNCHANGED main

\* withTimeout: the promise of ensureTransporter settled first
Ready(s) ==
  /\ subs[s].pc = "waitReady"
  /\ mail.promise \in {"true", "false"}
  /\ IF Disabled(mail.promise = "true", mail)
     THEN Reply(s, 201)
     ELSE subs' = [subs EXCEPT ![s].pc = "sending"]
  /\ UNCHANGED <<main, mail>>

\* withTimeout: the timer of 3000 ms fired first, ready is the fallback false
Timeout(s) ==
  /\ subs[s].pc = "waitReady"
  /\ mail.promise = "pending"
  /\ Reply(s, 201)
  /\ UNCHANGED <<main, mail>>

\* the callback of transporter.verify
VerifyDone(ok) ==
  /\ mail.verifying
  /\ mail' = [mail EXCEPT !.verifying = FALSE,
                          !.mailerReady = ok,
                          !.mailerError = IF ok THEN @ ELSE TRUE,
                          !.transporter = ok,
                          !.promise = IF mail.impl = "timeout"
                                      THEN (IF ok THEN "true" ELSE "false")
                                      ELSE @]
  /\ UNCHANGED <<main, subs>>

\* await transporter.sendMail(...) settles; a rejection is caught and logged
SendDone(s, ok) ==
  /\ subs[s].pc = "sending"
  /\ Reply(s, 201)
  /\ UNCHANGED <<main, mail>>

(***************************************************************************)
(* The normalizers applied to their own results                            *)
(***************************************************************************)
MaxLen == 3

Chars == {"A", "a", " ", "+", "1", "-"}

RECURSIVE Texts(_)
Texts(n) ==
  IF n = 0 THEN {<<>>}
  ELSE Texts(n - 1) \cup {Append(t, c) : t \in {u \in Texts(n - 1) : Len(u) = n - 1}, c \in Chars}

\* the three normalizers on one input: utils/normalizeEmail,
\* utils/normalizePhone and the normalizePhone of routes/public.ts
Normalized(x) ==
  [email |-> normalizeEmail(x.email), phone |-> normalizePhone(x.phone),
   local |-> normalizePhoneLocal(x.local)]

Same(text) == [email |-> text, phone |-> text, local |-> text]

IdleNorm == [pc |-> "idle", input |-> <<>>, once |-> Same(<<>>), twice |-> Same(<<>>)]

\* a value reaches the normalizers
Take ==
  /\ norm.pc = "idle"
  /\ \E t \in Texts(MaxLen) : norm' = [IdleNorm EXCEPT !.pc = "taken", !.input = t]
  /\ UNCHANGED <<base, mailv, cachev, limiter, conf, team, inv>>

Normalize ==
  /\ norm.pc = "taken"
  /\ norm' = [norm EXCEPT !.pc = "once", !.once = Normalized(Same(norm.input))]
  /\ UNCHANGED <<base, mailv, cachev, limiter, conf, team, inv>>

\* the stored, normalized value is normalized again
Renormalize ==
  /\ norm.pc = "once"
  /\ norm' = [norm EXCEPT !.pc = "twice", !.twice = Normalized(norm.once)]
  /\ UNCHANGED <<base, mailv, cachev, limiter, conf, team, inv>>

(***************************************************************************)
(* index.ts: originsCache and getAllowedOriginsForProjectSlug              *)
(***************************************************************************)
MaxTime == 4

MaxLookups == 2

Lookups == 1..MaxLookups

\* ORIGINS_CACHE_TTL_MS, in ticks of the clock
TTL == 2

\* originsCache.get(slug) of the one known slug; loadedAt records when
\* findMany read the rows
NoEntry == [present |-> FALSE, origins |-> {}, ts |-> 0, loadedAt |-> 0]

\* result "null": the slug names no project.  rows and changedAt record the
\* stored rows and their last change when the lookup returned
IdleLookup ==
  [pc |-> "idle", slug |-> "", now |-> 0, result |-> {}, found |-> FALSE,
   from |-> "", loadedAt |-> 0, rows |-> {}, changedAt |-> 0]

Fresh_Inclusive(entry, now) == entry.present /\ now - entry.ts <= TTL

\* cached && now - cached.ts < ORIGINS_CACHE_TTL_MS
Fresh(entry, now) == entry.present /\ now - entry.ts < TTL

\* time passes
Tick ==
  /\ clock < MaxTime
  /\ clock' = clock + 1
  /\ UNCHANGED <<base, mailv, norm, limiter, conf, team, inv, allowlist, originsCache, lookups>>

\* POST and DELETE /projects/current/allowed-origins: the stored rows change;
\* neither route touches originsCache
Change ==
  /\ allowlist' = [rows |-> IF "o1" \in allowlist.rows THEN allowlist.rows \ {"o1"}
                            ELSE allowlist.rows \cup {"o1"},
                   changedAt |-> clock]
  /\ UNCHANGED <<base, mailv, norm, limiter, conf, team, inv, clock, originsCache, lookups>>

Yield(l, result, found, from, loadedAt) ==
  lookups' = [lookups EXCEPT ![l] =
                [@ EXCEPT !.pc = "done", !.result = result, !.found = found,
                          !.from = from, !.loadedAt = loadedAt,
                          !.rows = allowlist.rows,
                          !.changedAt = allowlist.changedAt]]

\* getAllowedOriginsForProjectSlug up to its first await: a fresh entry is
\* returned, else project.findUnique is awaited
Begin(l) ==
  /\ lookups[l].pc = "idle"
  /\ l > 1 => lookups[l - 1].pc # "idle"
  /\ \E slug \in Slugs :
       IF ProjectBySlug(slug) # 0 /\ Fresh(originsCache, clock)
       THEN lookups' = [lookups EXCEPT ![l] =
                          [IdleLookup EXCEPT !.pc = "done", !.slug = slug,
                             !.now = clock, !.result = originsCache.origins,
                             !.found = TRUE, !.from = "cache",
                             !.loadedAt = originsCache.loadedAt,
                             !.rows = allowlist.rows,
                             !.changedAt = allowlist.changedAt]]
       ELSE lookups' = [lookups EXCEPT ![l] =
                          [IdleLookup EXCEPT !.pc = "findUnique", !.slug = slug,
                                             !.now = clock]]
  /\ UNCHANGED <<base, mailv, norm, limiter, conf, team, inv, clock, allowlist, originsCache>>

\* project.findUnique resolves: if (!project) return null
FindUnique(l) ==
  /\ lookups[l].pc = "findUnique"
  /\ IF ProjectBySlug(lookups[l].slug) = 0
     THEN Yield(l, {}, FALSE, "storage", clock)
     ELSE lookups' = [lookups EXCEPT ![l].pc = "findMany"]
  /\ UNCHANGED <<base, mailv, norm, limiter, conf, team, inv, clock, allowlist, originsCache>>

\* projectAllowedOrigin.findMany resolves: originsCache.set(slug, { origins,
\* ts: now }) with the now taken before the awaits
FindMany(l) ==
  /\ lookups[l].pc = "findMany"
  /\ originsCache' = [present |-> TRUE, origins |-> allowlist.rows,
                      ts |-> lookups[l].now, loadedAt |-> clock]
  /\ Yield(l, allowlist.rows, TRUE, "storage", clock)
  /\ UNCHANGED <<base, mailv, norm, limiter, conf, team, inv, clock, allowlist>>

(***************************************************************************)
(* GET /public/forms/:projectSlug/:formKey/config and the PublicForm rows  *)
(* it reads, for one project and requests the Trust Gate admits            *)
(***************************************************************************)
ConfigKeys == {"lead", "donation", "booking", "feedback"}

\* form keys a config request names
RequestKeys == ConfigKeys \cup {"other"}

\* the title the seed gives a form, and one a staff member gives it
Titles == {"seeded", "edited"}

Field(name, type, required) == [name |-> name, type |-> type, required |-> required]

\* PublicForm.config of a row created before the seed stored a config
NoConfig == [configVersion |-> "", fields |-> <<>>, rules |-> {}]

buildDefaultFormConfig(formKey) ==
  IF formKey = "donation"
  THEN [configVersion |-> "1",
        fields |-> << Field("name", "text", FALSE), Field("email", "email", FALSE),
                      Field("phone", "tel", FALSE), Field("amount", "amount", TRUE),
                      Field("message", "textarea", FALSE),
                      Field("source", "text", FALSE) >>,
        rules |-> {"name", "email", "phone"}]
  ELSE IF formKey = "booking"
  THEN [configVersion |-> "1",
        fields |-> << Field("name", "text", FALSE), Field("email", "email", FALSE),
                      Field("phone", "tel", FALSE), Field("service", "text", FALSE),
                      Field("date", "text", FALSE), Field("time", "text", FALSE),
                      Field("message", "textarea", FALSE),
                      Field("source", "text", FALSE) >>,
        rules |-> {"name", "email", "phone"}]
  ELSE IF formKey = "feedback"
  THEN [configVersion |-> "1",
        fields |-> << Field("name", "text", FALSE), Field("email", "email", FALSE),
                      Field("phone", "tel", FALSE),
                      Field("message", "textarea", TRUE),
                      Field("rating", "number", FALSE),
                      Field("clientRequestId", "text", FALSE),
                      Field("source", "text", FALSE) >>,
        rules |-> {"name", "email", "phone"}]
  ELSE [configVersion |-> "1",
        fields |-> << Field("name", "text", FALSE), Field("email", "email", FALSE),
                      Field("phone", "tel", FALSE),
                      Field("message", "textarea", FALSE),
                      Field("source", "text", FALSE) >>,
        rules |-> {"name", "email", "phone"}]

NoForm == [present |-> FALSE, title |-> "", isActive |-> FALSE, config |-> NoConfig]

FormRow(title, isActive, config) ==
  [present |-> TRUE, title |-> title, isActive |-> isActive, config |-> config]

NoBody == [error |-> ""]

\* no seed request was the last to finish
NoRun == <<>>

\* rows: the PublicForm rows of the project by form key; asked: the form key
\* of the last config request; status, body: its response; before: the rows
\* before the seed request that was the last request to finish
IdleConf ==
  [rows |-> [f \in ConfigKeys |-> NoForm], asked |-> "", status |-> 0,
   body |-> NoBody, before |-> NoRun]

\* the seed of a build that stored no config: a missing row is created
\* without one, an existing row keeps title, isActive and config
SeedLegacy(f) ==
  /\ ~conf.rows[f].present
  /\ conf' = [conf EXCEPT !.rows[f] = FormRow("seeded", TRUE, NoConfig),
                          !.before = NoRun]
  /\ UNCHANGED <<base, mailv, norm, cachev, limiter, team, inv>>

SeedRow_Reset(f, row) == FormRow("seeded", TRUE, buildDefaultFormConfig(f))

\* one pass of the loop of the seed: a missing row is created active with
\* the default title and config; an existing row gets the default config
\* when its config is null and keeps the rest
SeedRow(f, row) ==
  IF ~row.present THEN FormRow("seeded", TRUE, buildDefaultFormConfig(f))
  ELSE IF row.config = NoConfig
  THEN [row EXCEPT !.config = buildDefaultFormConfig(f)]
  ELSE row

SeedRows(rows) == [f \in ConfigKeys |-> SeedRow(f, rows[f])]

\* POST /public-forms/seed.  A pass writes no column that PATCH writes and
\* PATCH finds no row before its create, so the passes of one request
\* commute with the patches between them and the request takes one step
Seed ==
  /\ conf' = [conf EXCEPT !.rows = SeedRows(@), !.before = conf.rows]
  /\ UNCHANGED <<base, mailv, norm, cachev, limiter, team, inv>>

\* PATCH /public-forms/:id with title and isActive
PatchForm(f) ==
  /\ conf.rows[f].present
  /\ \E t \in Titles, a \in BOOLEAN :
       conf' = [conf EXCEPT !.rows[f].title = t, !.rows[f].isActive = a,
                            !.before = NoRun]
  /\ UNCHANGED <<base, mailv, norm, cachev, limiter, team, inv>>

\* res.json({ formKey, title, isActive }) of the selected columns
ConfigBody(f, row) ==
  [formKey |-> f, title |-> row.title, isActive |-> row.isActive]

\* the config request: 404 when the project has no row for the form key
GetConfig(f) ==
  /\ conf' = IF f \in ConfigKeys /\ conf.rows[f].present
             THEN [conf EXCEPT !.asked = f, !.status = 200,
                               !.body = ConfigBody(f, conf.rows[f]),
                               !.before = NoRun]
             ELSE [conf EXCEPT !.asked = f, !.status = 404,
                               !.body = [error |-> "Form not found"],
                               !.before = NoRun]
  /\ UNCHANGED <<base, mailv, norm, cachev, limiter, team, inv>>

(***************************************************************************)
(* requireAuth and the member routes of one project:                       *)
(* PATCH and DELETE /projects/current/members/:id                          *)
(***************************************************************************)
\* staff requests one behaviour sends
MaxStaff == 2

StaffReqs == 1..MaxStaff

\* users holding a token signed for the project; user u's membership has id u
Users == {1, 2, 3}

Roles == {"owner", "admin", "viewer"}

NoMember == "none"

\* the memberships when the tokens were issued: the role of each user's
\* membership, and so the role in the payload of the user's token
InitialMembers == <<"owner", "owner", "admin">>

Owners(rows) == {u \in Users : rows[u] = "owner"}

\* at: the role of the membership of the token's user when the request
\* arrived; late: the user had been removed before
IdleStaff ==
  [pc |-> "idle", user |-> 0, op |-> "", target |-> 0, newRole |-> "",
   role |-> "", status |-> 0, at |-> "", late |-> FALSE]

Finish(r, status) == staff' = [staff EXCEPT ![r].pc = "done", ![r].status = status]

AuthRole_FromToken(u) == InitialMembers[u]

\* role: membership.role of the membership findFirst returns
AuthRole(u) == members[u]

\* requireRole(req, res, roles)
AllowedRoles(op) ==
  IF op = "patch" THEN {"owner"}
  ELSE IF op = "delete" THEN {"owner", "admin"}
  ELSE Roles

\* requireAuth, then requireRole: 403 without a membership for the token's
\* (userId, projectId), 403 when the role of the membership is not allowed
Authorize(r) ==
  /\ staff[r].pc = "idle"
  /\ r > 1 => staff[r - 1].pc # "idle"
  /\ \E u \in Users, op \in {"list", "patch", "delete"}, t \in Users, n \in Roles :
       /\ op = "list" => (t = u /\ n = "owner")
       /\ op = "delete" => n = "owner"
       /\ LET q == [IdleStaff EXCEPT !.user = u, !.op = op, !.target = t,
                                     !.newRole = n, !.at = members[u],
                                     !.late = (u \in removed)]
          IN staff' = [staff EXCEPT ![r] =
               IF members[u] = NoMember
               THEN [q EXCEPT !.pc = "done", !.status = 403]
               ELSE IF AuthRole(u) \notin AllowedRoles(op)
               THEN [q EXCEPT !.pc = "done", !.status = 403, !.role = AuthRole(u)]
               ELSE [q EXCEPT !.pc = IF op = "list" THEN "list" ELSE "find",
                              !.role = AuthRole(u)]]
  /\ UNCHANGED <<pipeline, members, removed>>

\* GET /current/members: any member may list
ListMembers(r) ==
  /\ staff[r].pc = "list"
  /\ Finish(r, 200)
  /\ UNCHANGED <<pipeline, members, removed>>

\* target = membership.findFirst({ where: { id, projectId } }); the last
\* owner is guarded only when the target is an owner
FindTarget(r) ==
  /\ staff[r].pc = "find"
  /\ LET q == staff[r]
         role == members[q.target]
     IN IF role = NoMember THEN Finish(r, 404)
        ELSE IF q.op = "delete" /\ q.role = "admin" /\ role # "viewer"
        THEN Finish(r, 403)
        ELSE IF role = "owner" /\ (q.op = "delete" \/ q.newRole # "owner")
        THEN staff' = [staff EXCEPT ![r].pc = "count"]
        ELSE staff' = [staff EXCEPT ![r].pc = "write"]
  /\ UNCHANGED <<pipeline, members, removed>>

\* ownersCount <= 1
LastOwner(rows) == Cardinality(Owners(rows)) <= 1

\* ownersCount = membership.count({ where: { projectId, role: 'owner' } })
CountOwners(r) ==
  /\ staff[r].pc = "count"
  /\ IF LastOwner(members) THEN Finish(r, 409)
     ELSE staff' = [staff EXCEPT ![r].pc = "write"]
  /\ UNCHANGED <<pipeline, members, removed>>

\* membership.update / membership.delete by id: prisma throws when the row
\* is gone, and the handler answers 500
WriteMember(r) ==
  /\ staff[r].pc = "write"
  /\ LET q == staff[r]
     IN IF members[q.target] = NoMember
        THEN Finish(r, 500) /\ UNCHANGED <<members, removed>>
        ELSE /\ Finish(r, 200)
             /\ members' = [members EXCEPT ![q.target] =
                              IF q.op = "delete" THEN NoMember ELSE q.newRole]
             /\ removed' = IF q.op = "delete" THEN removed \cup {q.target}
                           ELSE removed
  /\ UNCHANGED pipeline

\* a user without a membership accepts an invite to the project:
\* membership.upsert creates the membership with the role of the invite
Join(u) ==
  /\ members[u] = NoMember
  /\ \E role \in Roles : members' = [members EXCEPT ![u] = role]
  /\ UNCHANGED <<pipeline, staff, removed>>

(***************************************************************************)
(* POST /invites/accept-public and POST /invites/accept for one invite     *)
(***************************************************************************)
\* accept requests one behaviour sends
MaxAccepts == 2

Accepts == 1..MaxAccepts

\* users that try to accept the invite
Invitees == {1, 2}

\* usedBy: usedByUserId, 0 for null; granted: the users whose membership
\* was written by a request accepting this invite
FreshInvite == [usedAt |-> FALSE, usedBy |-> 0, expired |-> FALSE, granted |-> {}]

\* late: the invite had expired when the request arrived; gave: the request
\* wrote a membership
IdleAccept ==
  [pc |-> "idle", user |-> 0, route |-> "", status |-> 0, late |-> FALSE,
   gave |-> FALSE]

Settle(a, status) ==
  accepts' = [accepts EXCEPT ![a].pc = "done", ![a].status = status]

\* the clock passes expiresAt
Expire ==
  /\ ~invite.expired
  /\ invite' = [invite EXCEPT !.expired = TRUE]
  /\ UNCHANGED <<others, team, accepts>>

\* a request arrives; accept-public takes `now` here, before its first read
Arrive(a) ==
  /\ accepts[a].pc = "idle"
  /\ a > 1 => accepts[a - 1].pc # "idle"
  /\ \E u \in Invitees, route \in {"accept-public", "accept"} :
       accepts' = [accepts EXCEPT ![a] =
                     [IdleAccept EXCEPT !.pc = "find", !.user = u, !.route = route,
                                        !.late = invite.expired]]
  /\ UNCHANGED <<others, team, invite>>

\* accept-public: invite = tx.projectInvite.findUnique; expired against `now`
PublicFind(a) ==
  /\ accepts[a].pc = "find" /\ accepts[a].route = "accept-public"
  /\ IF accepts[a].late THEN Settle(a, 410)
     ELSE accepts' = [accepts EXCEPT ![a].pc = "claim"]
  /\ UNCHANGED <<others, team, invite>>

\* accept-public: updateMany({ where: { usedAt: null, ... }, data: { usedAt: now } })
\* flips usedAt for one request only; the membership and usedByUserId are
\* written in the same transaction
PublicClaim(a) ==
  /\ accepts[a].pc = "claim"
  /\ IF invite.usedAt
     THEN Settle(a, 409) /\ UNCHANGED invite
     ELSE /\ invite' = [invite EXCEPT !.usedAt = TRUE, !.usedBy = accepts[a].user,
                                      !.granted = @ \cup {accepts[a].user}]
          /\ accepts' = [accepts EXCEPT ![a].pc = "done", ![a].status = 200,
                                        ![a].gave = TRUE]
  /\ UNCHANGED <<others, team>>

\* accept: invite = projectInvite.findUnique; usedAt, then expiresAt
\* against Date.now()
AcceptFind(a) ==
  /\ accepts[a].pc = "find" /\ accepts[a].route = "accept"
  /\ IF invite.usedAt
     THEN Settle(a, IF invite.usedBy = accepts[a].user THEN 200 ELSE 409)
     ELSE IF invite.expired THEN Settle(a, 410)
     ELSE accepts' = [accepts EXCEPT ![a].pc = "upsert"]
  /\ UNCHANGED <<others, team, invite>>

\* accept: membership.upsert for req.user
AcceptUpsert(a) ==
  /\ accepts[a].pc = "upsert"
  /\ invite' = [invite EXCEPT !.granted = @ \cup {accepts[a].user}]
  /\ accepts' = [accepts EXCEPT ![a].pc = "mark", ![a].gave = TRUE]
  /\ UNCHANGED <<others, team>>

\* accept: projectInvite.update({ data: { usedAt, usedByUserId } })
AcceptMark(a) ==
  /\ accepts[a].pc = "mark"
  /\ invite' = [invite EXCEPT !.usedAt = TRUE, !.usedBy = accepts[a].user]
  /\ Settle(a, 200)
  /\ UNCHANGED <<others, team>>

(***************************************************************************)
(* express-rate-limit: the limiter of index.ts on every request, then      *)
(* publicConfigLimiter and publicSubmitLimiter on the public routes        *)
(***************************************************************************)
\* requests one behaviour sends
MaxHits == 6

\* max of publicSubmitLimiter, publicConfigLimiter and of the limiter of
\* index.ts, scaled down in the same order
SubmitMax == 1

ConfigMax == 2

GlobalMax == 4

Callers == {"ip1", "ip2"}

\* (tenant slug, caller address) pairs
Buckets == {<<"s1", "ip1">>, <<"s2", "ip1">>, <<"s1", "ip2">>}

Endpoints == {"config", "submit"}

RouteMax(e) == IF e = "submit" THEN SubmitMax ELSE ConfigMax

\* keyGenerator: `${projectSlug}:${req.ip}:config`, `${projectSlug}:${req.ip}:submit`
RouteKey(b, e) == <<b[1], b[2], e>>

RouteKeys == {RouteKey(b, e) : b \in Buckets, e \in Endpoints}

OverLimit_Never(hits, max) == FALSE

\* the request is refused when the hits of its key in the window exceed max
OverLimit(hits, max) == hits > max

\* nth: the place of the request among those of its key's window that reached
\* the handler, 0 when it did not
NoResponse ==
  [bucket |-> <<"", "">>, endpoint |-> "", status |-> 0, by |-> "", wrote |-> FALSE,
   nth |-> 0]

\* global, route: the hits of each key in its current window; reached: the
\* requests to a route in the window of its key that reached the handler;
\* total: all requests so far; last: the last response
IdleLimiter ==
  [global |-> [c \in Callers |-> 0], route |-> [k \in RouteKeys |-> 0],
   reached |-> [k \in RouteKeys |-> 0], total |-> 0, last |-> NoResponse]

Response(b, e, status, by, wrote, nth) ==
  [bucket |-> b, endpoint |-> e, status |-> status, by |-> by, wrote |-> wrote,
   nth |-> nth]

\* a request to a public route: app.use(limiter) counts it under req.ip; if
\* that passes, the limiter of the route counts it under its key; if that
\* passes, the handler runs, and a submit handler may write
Request(b, e) ==
  /\ limiter.total < MaxHits
  /\ LET k == RouteKey(b, e)
         g == limiter.global[b[2]] + 1
         h == limiter.route[k] + 1
         counted == [limiter EXCEPT !.global[b[2]] = g, !.total = @ + 1]
     IN IF OverLimit(g, GlobalMax)
        THEN limiter' = [counted EXCEPT !.last = Response(b, e, 429, "global", FALSE, 0)]
        ELSE IF OverLimit(h, RouteMax(e))
        THEN limiter' = [counted EXCEPT !.route[k] = h,
                                        !.last = Response(b, e, 429, "route", FALSE, 0)]
        ELSE \E wrote \in {FALSE, e = "submit"} :
               limiter' = [counted EXCEPT !.route[k] = h, !.reached[k] = @ + 1,
                                          !.last = Response(b, e, 200, "", wrote,
                                                             limiter.reached[k] + 1)]
  /\ UNCHANGED <<base, mailv, norm, cachev, conf, team, inv>>

\* windowMs has passed since the first hit of a route key: its window ends
ResetRoute(b, e) ==
  /\ limiter.route[RouteKey(b, e)] > 0
  /\ limiter' = [limiter EXCEPT !.route[RouteKey(b, e)] = 0,
                                 !.reached[RouteKey(b, e)] = 0,
                                 !.last = NoResponse]
  /\ UNCHANGED <<base, mailv, norm, cachev, conf, team, inv>>

\* the window of a caller's key of the limiter of index.ts ends
ResetGlobal(c) ==
  /\ limiter.global[c] > 0
  /\ limiter' = [limiter EXCEPT !.global[c] = 0, !.last = NoResponse]
  /\ UNCHANGED <<base, mailv, norm, cachev, conf, team, inv>>

(***************************************************************************)
(* services/contacts: findOrCreateContact(projectId, input, db)            *)
(***************************************************************************)
MaxContacts == 2

Input(name, email, phone, notes) ==
  [name |-> name, email |-> email, phone |-> phone, notes |-> notes]

\* inputs of the resolver: raw, not yet normalized
Inputs ==
  { Input(Unknown, <<"A">>, None, None),
    Input(<<"B">>, <<"a", " ">>, <<"1", "-">>, <<"n">>),
    Input(None, None, <<"1">>, <<"m">>) }

NoRow == ContactRow(0, None, None, None, None, None, None, 0)

\* the locals of a call: the trimmed and the normalized input
IdleCall ==
  [pc |-> "idle", projectId |-> 0, rawName |-> None, rawEmail |-> None,
   rawPhone |-> None, emailNorm |-> None, phoneNorm |-> None,
   desiredName |-> None, desiredNotes |-> None,
   found |-> 0, snap |-> NoRow, result |-> ""]

RawName(c) == call[c].rawName

RawEmail(c) == call[c].rawEmail

RawPhone(c) == call[c].rawPhone

EmailNorm(c) == call[c].emailNorm

PhoneNorm(c) == call[c].phoneNorm

DesiredName(c) == call[c].desiredName

DesiredNotes(c) == call[c].desiredNotes

\* the call returns (or throws): its locals are gone
Return(c, result) ==
  call' = [call EXCEPT ![c] = [IdleCall EXCEPT !.pc = "done", !.result = result]]

BackfillData_Overwrite(contact, rawName, desiredName, rawEmail, rawPhone, emailNorm, phoneNorm, desiredNotes) ==
  [name |-> IF contact.name = None THEN desiredName
            ELSE IF rawName # None /\ contact.name = Unknown
                 THEN Slice(rawName, 255) ELSE None,
   email |-> IF rawEmail # None /\ contact.email = None
             THEN Slice(rawEmail, 255) ELSE None,
   phone |-> IF rawPhone # None /\ contact.phone = None
             THEN Slice(rawPhone, 50) ELSE None,
   emailNormalized |-> IF emailNorm # None /\ contact.emailNormalized = None
                       THEN emailNorm ELSE None,
   phoneNormalized |-> IF phoneNorm # None /\ contact.phoneNormalized = None
                       THEN phoneNorm ELSE None,
   notes |-> IF desiredNotes # None THEN Slice(desiredNotes, 2000) ELSE None]

\* the backfill of a found contact: None marks a key that data does not carry
BackfillData(contact, rawName, desiredName, rawEmail, rawPhone, emailNorm, phoneNorm, desiredNotes) ==
  [name |-> IF contact.name = None THEN desiredName
            ELSE IF rawName # None /\ contact.name = Unknown
                 THEN Slice(rawName, 255) ELSE None,
   email |-> IF rawEmail # None /\ contact.email = None
             THEN Slice(rawEmail, 255) ELSE None,
   phone |-> IF rawPhone # None /\ contact.phone = None
             THEN Slice(rawPhone, 50) ELSE None,
   emailNormalized |-> IF emailNorm # None /\ contact.emailNormalized = None
                       THEN emailNorm ELSE None,
   phoneNormalized |-> IF phoneNorm # None /\ contact.phoneNormalized = None
                       THEN phoneNorm ELSE None,
   notes |-> IF desiredNotes # None /\ contact.notes = None
             THEN Slice(desiredNotes, 2000) ELSE None]

DataKeys == {"name", "email", "phone", "emailNormalized", "phoneNormalized", "notes"}

DataOf(c) ==
  BackfillData(call[c].snap, RawName(c), DesiredName(c), RawEmail(c),
               RawPhone(c), EmailNorm(c), PhoneNorm(c), DesiredNotes(c))

\* prisma update: the keys of data replace the stored values
ApplyData(row, data) ==
  [f \in DOMAIN row |->
     IF f \in DataKeys /\ data[f] # None THEN data[f] ELSE row[f]]

\* after a contact is found: update it when data has keys, else return it
Found(c, k) ==
  LET snap == contacts[k]
      data == BackfillData(snap, RawName(c), DesiredName(c), RawEmail(c),
                           RawPhone(c), EmailNorm(c), PhoneNorm(c),
                           DesiredNotes(c))
  IN IF \E f \in DataKeys : data[f] # None
     THEN call' = [call EXCEPT ![c].pc = "update", ![c].found = k,
                               ![c].snap = snap]
     ELSE Return(c, "ok")

\* a caller invokes the resolver; a finished slot is reused, the lowest first
Resolve(c) ==
  /\ call[c].pc \in {"idle", "done"}
  /\ \A d \in Calls : d < c => call[d].pc \notin {"idle", "done"}
  /\ \E p \in NextProjects, in \in Inputs :
       call' = [call EXCEPT ![c] =
                  [IdleCall EXCEPT !.pc = IF normalizeEmail(in.email) # None
                                          THEN "findEmail"
                                          ELSE IF normalizePhone(in.phone) # None
                                          THEN "findPhone" ELSE "create",
                                   !.projectId = p,
                                   !.rawName = Trim(in.name),
                                   !.rawEmail = Trim(in.email),
                                   !.rawPhone = Trim(in.phone),
                                   !.emailNorm = normalizeEmail(in.email),
                                   !.phoneNorm = normalizePhone(in.phone),
                                   !.desiredName =
                                      computeContactName(Trim(in.name),
                                                         Trim(in.email),
                                                         Trim(in.phone)),
                                   !.desiredNotes = in.notes]]
  /\ UNCHANGED <<db, req, ext>>

\* findFirst({ where: { projectId, emailNormalized: emailNorm } })
FindEmail(c) ==
  /\ call[c].pc = "findEmail"
  /\ LET found == ContactsByEmailNormalized(call[c].projectId, EmailNorm(c))
     IN IF found = {}
        THEN call' = [call EXCEPT ![c].pc = IF PhoneNorm(c) # None
                                            THEN "findPhone" ELSE "create"]
        ELSE \E k \in found : Found(c, k)
  /\ UNCHANGED <<db, req, ext>>

\* findFirst({ where: { projectId, phoneNormalized: phoneNorm } })
FindPhone(c) ==
  /\ call[c].pc = "findPhone"
  /\ LET found == ContactsByPhoneNormalized(call[c].projectId, PhoneNorm(c))
     IN IF found = {}
        THEN call' = [call EXCEPT ![c].pc = "create"]
        ELSE \E k \in found : Found(c, k)
  /\ UNCHANGED <<db, req, ext>>

\* db.contact.update({ where: { id_projectId }, data }): not inside a try
Update(c) ==
  /\ call[c].pc = "update"
  /\ LET k == call[c].found
         row == ApplyData(contacts[k], DataOf(c))
     IN IF ContactUniqueViolation(row, k)
        THEN /\ Return(c, "P2002")
             /\ UNCHANGED contacts
        ELSE /\ contacts' = [contacts EXCEPT ![k] = row]
             /\ Return(c, "ok")
  /\ UNCHANGED <<cases, transactions, req, ext>>

\* the data of db.contact.create
CreateData(c) ==
  ContactRow(call[c].projectId, DesiredName(c),
             Slice(RawEmail(c), 255), Slice(RawPhone(c), 50),
             Slice(DesiredNotes(c), 2000), EmailNorm(c), PhoneNorm(c), 0)

\* catch (err): if (isUniqueError(err) && (emailNorm || phoneNorm))
RefetchesOnConflict(emailNorm, phoneNorm) == emailNorm # None \/ phoneNorm # None

Create(c) ==
  /\ call[c].pc = "create"
  /\ Len(contacts) < MaxContacts
  /\ IF ContactUniqueViolation(CreateData(c), 0)
     THEN /\ IF RefetchesOnConflict(EmailNorm(c), PhoneNorm(c))
             THEN call' = [call EXCEPT ![c].pc = "refetchEmail"]
             ELSE Return(c, "P2002")
          /\ UNCHANGED contacts
     ELSE /\ contacts' = Append(contacts, CreateData(c))
          /\ Return(c, "ok")
  /\ UNCHANGED <<cases, transactions, req, ext>>

\* existing = emailNorm ? findFirst(...) : null; if (existing) return existing
RefetchEmail(c) ==
  /\ call[c].pc = "refetchEmail"
  /\ LET found == IF EmailNorm(c) # None
                  THEN ContactsByEmailNormalized(call[c].projectId, EmailNorm(c))
                  ELSE {}
     IN IF found = {}
        THEN call' = [call EXCEPT ![c].pc = "refetchPhone"]
        ELSE \E k \in found : Return(c, "ok")
  /\ UNCHANGED <<db, req, ext>>

\* existingByPhone = phoneNorm ? findFirst(...) : null; else throw err
RefetchPhone(c) ==
  /\ call[c].pc = "refetchPhone"
  /\ LET found == IF PhoneNorm(c) # None
                  THEN ContactsByPhoneNormalized(call[c].projectId, PhoneNorm(c))
                  ELSE {}
     IN IF found = {}
        THEN Return(c, "P2002")
        ELSE \E k \in found : Return(c, "ok")
  /\ UNCHANGED <<db, req, ext>>

\* no request in flight, empty tables
Boot ==
  /\ contacts = <<>>
  /\ cases = <<>>
  /\ transactions = <<>>
  /\ req = [i \in Reqs |-> IdleReq]
  /\ call = [c \in Calls |-> IdleCall]
  /\ gate = IdleGate
  /\ origins = {}
  /\ seed = 0
  /\ val = IdleVal
  /\ mail = IdleMail
  /\ norm = IdleNorm
  /\ limiter = IdleLimiter
  /\ conf = IdleConf
  /\ members = InitialMembers
  /\ staff = [r \in StaffReqs |-> IdleStaff]
  /\ removed = {}
  /\ invite = FreshInvite
  /\ accepts = [a \in Accepts |-> IdleAccept]
  /\ clock = 0
  /\ allowlist = [rows |-> {}, changedAt |-> 0]
  /\ originsCache = NoEntry
  /\ lookups = [l \in Lookups |-> IdleLookup]
  /\ subs = [s \in Subs |-> IdleSub]

\* the forms of every project are seeded and active
SeededForms == [k \in Projects \X FormKeys |-> "active"]

Init == Boot /\ forms = SeededForms

\* no project has forms yet
FormInit == Boot /\ forms = [k \in Projects \X FormKeys |-> "absent"]

Next ==
  \E i \in Reqs :
    \/ Start(i)
    \/ PreCheck(i)
    \/ Lookup1(i)
    \/ Lookup2(i)
    \/ ContactFind(i)
    \/ ContactCreate(i)
    \/ CaseCreate(i)
    \/ Reread(i)

Spec == Init /\ [][Next]_vars

ResolverNext ==
  \E c \in Calls :
    \/ Resolve(c)
    \/ FindEmail(c)
    \/ FindPhone(c)
    \/ Update(c)
    \/ Create(c)
    \/ RefetchEmail(c)
    \/ RefetchPhone(c)

ResolverSpec == Init /\ [][ResolverNext]_vars

GateNext ==
  \/ Require
  \/ FindProject
  \/ FindAllowlist
  \/ \E p \in Projects, o \in Origins : AddOrigin(p, o)
  \/ \E p \in Projects, o \in Origins : DeleteOrigin(p, o)

GateSpec == Init /\ [][GateNext]_vars

Handle(i) ==
  \/ Config(i)
  \/ PreCheck(i)
  \/ Lookup1(i)
  \/ Lookup2(i)
  \/ ContactFind(i)
  \/ ContactCreate(i)
  \/ CaseCreate(i)
  \/ Reread(i)

PublicNext ==
  \/ \E i \in Reqs : Submit(i, PublicInputs, RequestIds) \/ Handle(i)
  \/ AddOrigin(StaffProject, "o1")
  \/ DeleteOrigin(StaffProject, "o1")

PublicSpec == Init /\ [][PublicNext]_vars

MailNext ==
  \/ StartServer
  \/ \E s \in Subs : Commit(s) \/ Notify(s) \/ Ready(s) \/ Timeout(s)
  \/ \E ok \in BOOLEAN : VerifyDone(ok)
  \/ \E s \in Subs, ok \in BOOLEAN : SendDone(s, ok)

MailSpec == Init /\ [][MailNext]_vars

\* the handler and the timer run; nothing makes the SMTP server answer
HandlerFairness ==
  \A s \in Subs :
    /\ WF_vars(Commit(s)) /\ WF_vars(Notify(s))
    /\ WF_vars(Ready(s)) /\ WF_vars(Timeout(s))

FairMailSpec == MailSpec /\ WF_vars(StartServer) /\ HandlerFairness

ConfigNext ==
  \/ Seed
  \/ \E f \in ConfigKeys : SeedLegacy(f) \/ PatchForm(f)
  \/ \E f \in RequestKeys : GetConfig(f)

ConfigSpec == Init /\ [][ConfigNext]_vars

MemberNext ==
  \/ \E r \in StaffReqs :
       \/ Authorize(r)
       \/ ListMembers(r)
       \/ FindTarget(r)
       \/ CountOwners(r)
       \/ WriteMember(r)
  \/ \E u \in Users : Join(u)

MemberSpec == Init /\ [][MemberNext]_vars

InviteNext ==
  \/ Expire
  \/ \E a \in Accepts :
       \/ Arrive(a)
       \/ PublicFind(a)
       \/ PublicClaim(a)
       \/ AcceptFind(a)
       \/ AcceptUpsert(a)
       \/ AcceptMark(a)

InviteSpec == Init /\ [][InviteNext]_vars

HoneypotNext ==
  \E i \in Reqs :
    \/ Offer(i)
    \/ PreCheck(i)
    \/ Lookup1(i)
    \/ Lookup2(i)
    \/ ContactFind(i)
    \/ ContactCreate(i)
    \/ CaseCreate(i)
    \/ Reread(i)

HoneypotSpec == Init /\ [][HoneypotNext]_vars

LimiterNext ==
  \/ \E b \in Buckets, e \in Endpoints : Request(b, e) \/ ResetRoute(b, e)
  \/ \E c \in Callers : ResetGlobal(c)

LimiterSpec == Init /\ [][LimiterNext]_vars

CacheNext ==
  \/ Tick
  \/ Change
  \/ \E l \in Lookups : Begin(l) \/ FindUnique(l) \/ FindMany(l)

CacheSpec == Init /\ [][CacheNext]_vars

NormNext ==
  \/ Take
  \/ Normalize
  \/ Renormalize

NormSpec == Init /\ [][NormNext]_vars

ValidatorNext ==
  \/ Receive
  \/ Parse

ValidatorSpec == Init /\ [][ValidatorNext]_vars

FormNext ==
  \/ \E i \in Reqs : Submit(i, AdmittedInputs, TokenIds) \/ Handle(i)
  \/ SeedStep
  \/ \E f \in PathKeys \cap FormKeys, a \in BOOLEAN : Patch(f, a)

FormSpec == FormInit /\ [][FormNext]_vars

(***************************************************************************)
(* Properties of the submission pipeline                                   *)
(***************************************************************************)
SameToken(i, j) ==
  /\ req[i].token # NoToken
  /\ req[i].token = req[j].token
  /\ req[i].projectId = req[j].projectId

Done(i) == req[i].pc = "done"

\* j arrived after i was answered with the Case it created: case.create and
\* the 201 are one step, so the Case that j's token identified on arrival
\* belongs to a request already answered
Sequential(i, j) ==
  /\ i # j
  /\ req[j].sawCase # 0
  /\ cases[req[j].sawCase].by = i

Valid(i) == ValidBody(req[i].formKey, req[i].body)

\* C1: storage never holds two Cases with the same tenant and the same
\* idempotency token, however the submissions carrying it interleave.
C1_OneCasePerToken ==
  \A k1, k2 \in DOMAIN cases :
    ( /\ cases[k1].clientRequestId # NoToken
      /\ cases[k1].clientRequestId = cases[k2].clientRequestId
      /\ cases[k1].projectId = cases[k2].projectId ) => k1 = k2

\* two submissions with the same tenant and token ran to the end, one of them
\* after its case.create hit the unique index
C1_Witness ==
  \E i, j \in Reqs :
    /\ i # j /\ SameToken(i, j) /\ Done(i) /\ Done(j)
    /\ req[i].status = 201 /\ req[j].path = "conflict"

C4_ReplayWritesNothing ==
  [][\A i \in Reqs :
       (req[i].sawCase # 0 /\ req'[i] # req[i]) => db' = db]_vars

C4_Witness ==
  \E i \in Reqs :
    /\ req[i].sawCase # 0 /\ Done(i)
    /\ req[i].status = 200 /\ req[i].rCase = req[i].sawCase

\* C6 (as claimed): two lead submissions to one tenant whose emails differ
\* only in letter case or surrounding whitespace are both answered 201 with
\* the same contact.id.
C6_SameContactForSameEmail ==
  \A i, j \in Reqs :
    ( /\ i # j /\ Done(i) /\ Done(j)
      /\ req[i].formKey = "lead" /\ req[j].formKey = "lead"
      /\ req[i].projectId = req[j].projectId
      /\ req[i].token = NoToken /\ req[j].token = NoToken
      /\ Valid(i) /\ Valid(j)
      /\ req[i].body.email # req[j].body.email
      /\ normalizeEmail(req[i].body.email) # None
      /\ normalizeEmail(req[i].body.email) = normalizeEmail(req[j].body.email) )
    => /\ req[i].status = 201 /\ req[j].status = 201
       /\ req[i].rContact = req[j].rContact

\* C9 (as claimed): every Contact has emailNormalized = normalizeEmail(email)
\* and phoneNormalized = normalizePhone(phone), an empty value standing for null.
C9_NormalizedInSync ==
  \A k \in DOMAIN contacts :
    /\ contacts[k].emailNormalized = normalizeEmail(contacts[k].email)
    /\ contacts[k].phoneNormalized = normalizePhone(contacts[k].phone)

\* C10 (as claimed): once a submission is answered, every Contact it created
\* is the contact of a Case it created.
C10_NoOrphanContact ==
  \A i \in Reqs :
    Done(i) =>
      \A k \in DOMAIN contacts :
        contacts[k].by = i =>
          \E c \in DOMAIN cases : cases[c].contactId = k /\ cases[c].by = i

(***************************************************************************)
(* Properties of the contact resolver                                      *)
(***************************************************************************)
\* C5: no tenant has two Contact rows with the same non-null normalized
\* email, nor two with the same non-null normalized phone.
C5_UniqueNormalized ==
  \A k1, k2 \in DOMAIN contacts :
    (k1 # k2 /\ contacts[k1].projectId = contacts[k2].projectId)
    => /\ contacts[k1].emailNormalized # None
            => contacts[k1].emailNormalized # contacts[k2].emailNormalized
       /\ contacts[k1].phoneNormalized # None
            => contacts[k1].phoneNormalized # contacts[k2].phoneNormalized

\* two creates of the same normalized identity raced: one row is stored and
\* the losing call is in its catch block
C5_Witness ==
  \E c \in Calls, k \in DOMAIN contacts :
    /\ call[c].pc = "refetchEmail"
    /\ contacts[k].projectId = call[c].projectId
    /\ \/ contacts[k].emailNormalized = call[c].emailNorm
       \/ contacts[k].phoneNormalized = call[c].phoneNorm

\* C7 (as claimed): no call of the resolver ends by throwing the
\* unique-constraint error.
C7_NoUniqueErrorEscapes ==
  \A c \in Calls : call[c].result # "P2002"

Populated(v) == v # None

RawFields == {"name", "email", "phone", "notes"}

\* the step in which call c writes the backfill of the contact it found
Backfills(c) == call[c].pc = "update" /\ call'[c].pc = "done"

\* C8 (as claimed): the backfill leaves every field of name, email, phone and
\* notes that was populated on the found row as it was.
C8_Original ==
  [][\A c \in Calls :
       Backfills(c) =>
         \A f \in RawFields :
           Populated(call[c].snap[f])
           => contacts'[call[c].found][f] = call[c].snap[f]]_vars

\* C8 (amended): the backfill leaves every populated field of name, email,
\* phone and notes as it was, except a name that is the placeholder 'Unknown'.
C8_BackfillKeepsPopulated ==
  [][\A c \in Calls :
       Backfills(c) =>
         \A f \in RawFields :
           (Populated(call[c].snap[f]) /\ ~(f = "name" /\ call[c].snap[f] = Unknown))
           => contacts'[call[c].found][f] = call[c].snap[f]]_vars

\* a contact created from a phone alone was found again by that phone and
\* given an email, while its name, phone and notes stayed
C8_Witness ==
  \E k \in DOMAIN contacts :
    /\ contacts[k].name = <<"1">>
    /\ contacts[k].phone = <<"1">>
    /\ contacts[k].notes = <<"m">>
    /\ contacts[k].email = <<"a">>
    /\ contacts[k].emailNormalized = <<"a">>

(***************************************************************************)
(* Properties of the Trust Gate                                            *)
(***************************************************************************)
\* the gate has answered
Decided == gate.pc = "done"

\* the gate returned the project: the request is admitted
Admitted == Decided /\ gate.status = 0

\* the capability key is the stored key of the tenant the slug names
KeyCorrect ==
  /\ ProjectBySlug(gate.in.slug) # 0
  /\ gate.in.key = PublicKey(ProjectBySlug(gate.in.slug))

\* C11: an unknown tenant slug yields 404; for a known tenant a missing key
\* or one that differs from the stored key yields 403; no request with a
\* wrong or absent key is admitted, whatever its Origin, Referer or method.
C11_KeyCheck ==
  Decided =>
    /\ ProjectBySlug(gate.in.slug) = 0 => gate.status = 404
    /\ (ProjectBySlug(gate.in.slug) # 0 /\ ~KeyCorrect) => gate.status = 403
    /\ gate.status = 0 => KeyCorrect

\* the key of another tenant is refused although the Origin is on the allowlist
C11_Witness ==
  /\ Decided /\ gate.status = 403
  /\ gate.in.slug = "s1" /\ gate.in.key = "k2"
  /\ gate.in.origin = "o1" /\ <<1, "o1">> \in origins

\* C12 (as claimed): with a correct key, an Origin that is not in a non-empty
\* allowlist is rejected with 403, and with an empty allowlist the request is
\* admitted.
C12_OriginAllowlist ==
  (Decided /\ KeyCorrect) =>
    /\ (gate.allowed # {} /\ gate.in.origin # NoHeader
        /\ gate.in.origin \notin gate.allowed) => gate.status = 403
    /\ gate.allowed = {} => gate.status = 0

\* C13 (as claimed): with a non-empty allowlist, a request that supplies an
\* Origin or a Referer is admitted only if the Origin equals an allowlist
\* entry, the origin of the Referer counting only when Origin is absent;
\* every other such request is rejected with 403.
C13_StrictOrigin ==
  (Decided /\ KeyCorrect /\ gate.allowed # {}
   /\ (gate.in.origin # NoHeader \/ gate.in.referer # NoHeader)) =>
    IF \/ gate.in.origin # NoHeader /\ gate.in.origin \in gate.allowed
       \/ /\ gate.in.origin = NoHeader
          /\ UrlOrigin(gate.in.referer) # NoHeader
          /\ UrlOrigin(gate.in.referer) \in gate.allowed
    THEN gate.status = 0
    ELSE gate.status = 403

\* C14: with a non-empty allowlist and neither Origin nor Referer, a GET is
\* admitted and a POST is rejected with 403 unless PUBLIC_ALLOW_NO_ORIGIN is
\* set.
C14_NoOriginHeaders ==
  (Decided /\ KeyCorrect /\ gate.allowed # {}
   /\ gate.in.origin = NoHeader /\ gate.in.referer = NoHeader) =>
    /\ gate.in.method = "GET" => gate.status = 0
    /\ gate.in.method = "POST" =>
         gate.status = IF gate.in.allowNoOrigin THEN 0 ELSE 403

C14_Witness ==
  /\ Decided /\ KeyCorrect /\ gate.allowed # {}
  /\ gate.in.origin = NoHeader /\ gate.in.referer = NoHeader
  /\ gate.in.method = "POST" /\ ~gate.in.allowNoOrigin
  /\ gate.status = 403

\* the tenant whose staff session the bearer token decodes to, 0 when the
\* token is absent or the membership is gone
BearerProject(bearer) ==
  IF bearer = "staff1" THEN 1 ELSE IF bearer = "staff2" THEN 2 ELSE 0

\* C15 (as claimed): with a non-empty allowlist and a correct key, a bearer
\* token of a staff session of the same tenant admits the request whatever
\* its Origin and Referer; a token of another tenant or of a removed
\* membership does not.
C15_StaffPreview ==
  (Decided /\ KeyCorrect /\ gate.allowed # {}) =>
    /\ BearerProject(gate.in.bearer) = gate.project => gate.status = 0
    /\ (BearerProject(gate.in.bearer) # gate.project
        /\ gate.in.origin = "o2" /\ "o2" \notin gate.allowed
        /\ gate.in.referer = NoHeader) => gate.status = 403

(***************************************************************************)
(* Properties of the public endpoints and the staff form routes            *)
(***************************************************************************)
\* the gate rejected request i: its verdict on the request and the allowlist
\* it read is a status
Rejected(i) == Done(i) /\ GateVerdict(req[i].gin, req[i].gAllowed) # 0

\* the rows request i wrote
Wrote(i) ==
  \/ \E k \in DOMAIN contacts : contacts[k].by = i
  \/ \E k \in DOMAIN cases : cases[k].by = i

\* C16: on both public endpoints a request the gate rejects is answered with
\* the gate's status alone: no idempotency lookup result, form state,
\* validation result or stored record is in the response and no Contact, Case
\* or Transaction is written for it; and for fixed tenant, key, headers and
\* method the decision is the same for every formKey.
C16_GateFirst ==
  /\ \A i \in Reqs :
       Rejected(i) =>
         /\ req[i].status = GateVerdict(req[i].gin, req[i].gAllowed)
         /\ req[i].path = "gate"
         /\ ~req[i].idempotent
         /\ req[i].rContact = 0 /\ req[i].rCase = 0 /\ req[i].rTx = 0
         /\ ~Wrote(i)
  /\ \A i, j \in Reqs :
       ( /\ Done(i) /\ Done(j)
         /\ req[i].gin = req[j].gin /\ req[i].gAllowed = req[j].gAllowed ) =>
         /\ (req[i].path = "gate") = (req[j].path = "gate")
         /\ req[i].path = "gate" => req[i].status = req[j].status

\* a valid POST with another tenant's key is refused although its token
\* names a stored Case and its Origin is on the allowlist
C16_Witness ==
  \E i \in Reqs :
    /\ Rejected(i) /\ req[i].status = 403
    /\ req[i].gin.method = "POST" /\ req[i].gin.key = "k2"
    /\ req[i].sawCase # 0 /\ Valid(i)
    /\ <<1, "o1">> \in origins

\* an admitted POST to a built-in form, answered
Submitted(i) ==
  /\ Done(i) /\ ~Rejected(i)
  /\ req[i].gin.method = "POST" /\ req[i].formKey \in FormKeys

\* a new submission: no other request carries its request id
New(i) ==
  req[i].token = NoToken \/ \A j \in Reqs \ {i} : ~SameToken(i, j)

\* C17 (as claimed): after staff set a form's isActive to false, every new
\* submission to that form is answered 410 and creates no records; after
\* staff set it back to true, a new valid submission is answered 201 again.
C17_DisableEnable ==
  \A i \in Reqs :
    (Submitted(i) /\ New(i)) =>
      /\ req[i].sawForm = "inactive" => (req[i].status = 410 /\ ~Wrote(i))
      /\ (req[i].sawForm = "active" /\ Valid(i)) => req[i].status = 201

\* C18 (as claimed): a submission is answered 410 only when the Public Form
\* row of (tenant, formKey) exists and is inactive; when no row exists a
\* submission that would otherwise be accepted is answered 404, not 410.
C18_GoneOnlyWhenInactive ==
  \A i \in Reqs :
    /\ (Done(i) /\ req[i].status = 410) => req[i].sawForm \in {"inactive", "changed"}
    /\ (Submitted(i) /\ New(i) /\ Valid(i) /\ req[i].sawForm = "absent") =>
         req[i].status = 404

\* the step answers request i
Answers(i) == req[i].pc # "done" /\ req'[i].pc = "done"

Absent(raw) ==
  \/ raw.kind \in {"undefined", "null"}
  \/ raw.kind = "string" /\ Trim(raw.text) = <<>>

\* C20 (as claimed): for every required field of the schema of the form, a
\* body whose raw value for it is undefined, null or an empty or
\* whitespace-only string is rejected with a validation error for that field.
C20_AbsentRejected ==
  val.pc = "parsed" =>
    \A f \in RequiredFields(val.formKey) :
      Absent(val.body[f]) => f \in val.issues

(***************************************************************************)
(* Properties of the responses of the submission endpoint                  *)
(***************************************************************************)
\* request i was a POST and has been answered
Posted(i) == Done(i) /\ req[i].path \notin {"gate", "config", "noform"}

\* C21 (as claimed): every 200 response of the POST carries idempotent:
\* true, whichever lookup found the Case, and 201 is returned only by the
\* request that created the Case.
C21_ReplayFlag ==
  \A i \in Reqs :
    Posted(i) =>
      /\ req[i].status = 200 => req[i].idempotent
      /\ req[i].status = 201 =>
           (req[i].rCase \in DOMAIN cases /\ cases[req[i].rCase].by = i)

\* another tenant holds a Case with the token of request j
TokenUsedElsewhere(j) ==
  /\ req[j].token # NoToken
  /\ \E k \in DOMAIN cases :
       /\ cases[k].clientRequestId = req[j].token
       /\ cases[k].projectId # req[j].projectId

\* C22: idempotency tokens are scoped to the tenant: a valid submission to a
\* tenant, carrying a token that a Case of another tenant holds and that no
\* other request to its own tenant carries, is not a replay and creates its
\* own Case; and whatever else shares the token, its response contains no
\* contact, case or transaction of another tenant.
C22_TokenPerTenant ==
  \A j \in Reqs :
    (Posted(j) /\ TokenUsedElsewhere(j)) =>
      /\ req[j].rCase # 0 => cases[req[j].rCase].projectId = req[j].projectId
      /\ req[j].rContact # 0 =>
           contacts[req[j].rContact].projectId = req[j].projectId
      /\ req[j].rTx # 0 =>
           transactions[req[j].rTx].projectId = req[j].projectId
      /\ (Valid(j) /\ New(j)) =>
           /\ req[j].status = 201 /\ ~req[j].idempotent
           /\ cases[req[j].rCase].by = j

\* two tenants each hold a Case with the same token, each created by the
\* request sent to it
C22_Witness ==
  \E i, j \in Reqs :
    /\ Posted(i) /\ Posted(j) /\ TokenUsedElsewhere(j)
    /\ req[i].token = req[j].token /\ req[i].projectId # req[j].projectId
    /\ req[i].status = 201 /\ req[j].status = 201
    /\ req[i].rCase # req[j].rCase

\* C23: a submission with no idempotency token, none in X-Request-Id,
\* X-Client-Request-Id or body clientRequestId, or one longer than the
\* 128-character cap, is always treated as new: every such valid submission
\* creates a Case of its own and none is answered as a replay.
C23_NoTokenAlwaysNew ==
  \A i \in Reqs :
    ( /\ Submitted(i) /\ Valid(i)
      /\ req[i].ids = NoIds \/ IdLength(ClientRequestId(req[i].ids)) > MaxIdLength ) =>
      /\ req[i].status = 201 /\ ~req[i].idempotent
      /\ req[i].rCase \in DOMAIN cases /\ cases[req[i].rCase].by = i
      /\ cases[req[i].rCase].clientRequestId = NoToken
      /\ \A j \in Reqs \ {i} : req[j].rCase # req[i].rCase

\* two valid submissions with the same over-long X-Request-Id each created
\* a Case
C23_Witness ==
  \E i, j \in Reqs :
    /\ i # j /\ Submitted(i) /\ Submitted(j)
    /\ req[i].ids[1] = LongId /\ req[j].ids[1] = LongId
    /\ req[i].projectId = req[j].projectId
    /\ req[i].status = 201 /\ req[j].status = 201
    /\ req[i].rCase # req[j].rCase

(***************************************************************************)
(* Properties of the notification dispatch                                 *)
(***************************************************************************)
\* C24 (as claimed): no failure of the notification dispatch changes the
\* outcome of a submission: once its Case is stored the response is 201, and
\* the Case stays stored.
C24_NotificationNeverFails ==
  \A s \in Subs :
    subs[s].pc = "done" => (subs[s].stored /\ subs[s].status = 201)

\* C25 (as claimed): every submission whose Case is stored eventually
\* receives its response, even if the SMTP verification or the delivery of
\* the message never completes.
C25_AlwaysAnswered ==
  \A s \in Subs : (subs[s].pc # "idle") ~> (subs[s].pc = "done")

(***************************************************************************)
(* Properties of the normalizers                                           *)
(***************************************************************************)
\* C26: normalizeEmail and both normalizePhone functions return a value
\* for every input, and normalizing an already-normalized value returns it
\* unchanged.
C26_NormalizersIdempotent ==
  /\ norm.pc \in {"once", "twice"} =>
       \A f \in DOMAIN norm.once :
         /\ Len(norm.once[f]) <= Len(norm.input)
         /\ \A k \in DOMAIN norm.once[f] : norm.once[f][k] \in Chars \cup {"b", "u"}
  /\ norm.pc = "twice" => norm.twice = norm.once

\* " +-" loses its blank and its dash, "+" is kept by the route's normalizer
\* only, and the second pass changes nothing
C26_Witness ==
  /\ norm.pc = "twice"
  /\ norm.input = <<" ", "+", "-">>
  /\ norm.once = [email |-> <<"+", "-">>, phone |-> <<>>, local |-> <<"+">>]
  /\ norm.twice = norm.once

(***************************************************************************)
(* Properties of the origins cache                                         *)
(***************************************************************************)
\* C27: a lookup through originsCache returns a cached list only if the list
\* was loaded less than ORIGINS_CACHE_TTL_MS before; and every lookup made
\* at least one TTL after the last addition or removal of an allowed origin
\* returns the stored list.
C27_BoundedStaleness ==
  \A l \in Lookups :
    (lookups[l].pc = "done" /\ lookups[l].found) =>
      /\ lookups[l].from = "cache" => lookups[l].now - lookups[l].loadedAt < TTL
      /\ lookups[l].now >= lookups[l].changedAt + TTL =>
           lookups[l].result = lookups[l].rows

\* a lookup answered from the cache with a list that storage no longer
\* holds, less than one TTL after the change
C27_Witness ==
  \E l \in Lookups :
    /\ lookups[l].pc = "done" /\ lookups[l].from = "cache"
    /\ lookups[l].result # lookups[l].rows
    /\ lookups[l].now > lookups[l].changedAt
    /\ \E k \in Lookups : lookups[k].pc = "done" /\ lookups[k].from = "storage"
                            /\ lookups[k].now >= lookups[k].changedAt + TTL
                            /\ lookups[k].changedAt > 0

(***************************************************************************)
(* Properties of the rate limiting                                         *)
(***************************************************************************)
\* within the window of its key, no more than the configured number of
\* requests per (tenant slug, caller address) reach the handler of a route,
\* every further one is answered 429, and a 429 comes without a write
WithinBudget ==
  /\ \A b \in Buckets, e \in Endpoints :
       limiter.reached[RouteKey(b, e)] <= RouteMax(e)
  /\ limiter.last.status # 0 =>
       IF limiter.last.status = 429
       THEN ~limiter.last.wrote /\ limiter.last.nth = 0
       ELSE /\ limiter.last.nth >= 1
            /\ limiter.last.nth <= RouteMax(limiter.last.endpoint)

\* the budget of the route of the last request is used up for its caller
\* and tenant
OwnBudgetSpent ==
  limiter.reached[RouteKey(limiter.last.bucket, limiter.last.endpoint)]
    = RouteMax(limiter.last.endpoint)

\* C28 (as claimed): within one rate window at most the configured number of
\* requests per (tenant slug, caller address) reach the submit handler and
\* every further one is answered 429 without any write; config reads have a
\* budget of their own, so a 429 on one endpoint comes only when the budget
\* of that endpoint is used up.
C28_Original ==
  /\ WithinBudget
  /\ limiter.last.status = 429 => OwnBudgetSpent

\* C28 (amended): the same, except that a 429 on one endpoint also comes
\* when the caller address has sent more requests of any kind in the window
\* than the limiter of the whole application allows.
C28_SeparateBudgets ==
  /\ WithinBudget
  /\ limiter.last.status = 429 =>
       \/ OwnBudgetSpent
       \/ limiter.global[limiter.last.bucket[2]] > GlobalMax

\* a caller has used up and exceeded the config budget of a tenant, and its
\* next submit to the same tenant reaches the handler and writes
C28_Witness ==
  /\ limiter.last = Response(<<"s1", "ip1">>, "submit", 200, "", TRUE, 1)
  /\ limiter.route[RouteKey(<<"s1", "ip1">>, "config")] > ConfigMax
  /\ limiter.reached[RouteKey(<<"s1", "ip1">>, "config")] = ConfigMax


\* j carries a token that identified a Case of its tenant when it arrived,
\* and the handler has answered it
Replayed(j) == Posted(j) /\ req[j].sawCase # 0

\* C29: a submission carrying a token that already identifies a Case in the
\* tenant is answered as a replay of that Case even when its form key or
\* payload differs from the original's: the response names the original
\* Case and its contact, the Case still carries the form key of the
\* submission that created it, and no step of the replay writes a row.
C29_ReplayOfOriginal ==
  /\ [](\A j \in Reqs :
          Replayed(j)
          => /\ req[j].status = 200 /\ req[j].idempotent
             /\ req[j].rCase = req[j].sawCase
             /\ req[j].rContact = cases[req[j].sawCase].contactId
             /\ cases[req[j].sawCase].projectId = req[j].projectId
             /\ \A i \in Reqs :
                  cases[req[j].sawCase].by = i
                  => cases[req[j].sawCase].formKey = req[i].formKey)
  /\ [][\A j \in Reqs :
          (req[j].sawCase # 0 /\ req[j].pc = "precheck" /\ req'[j] # req[j])
          => (db' = db /\ req'[j].pc = "done")]_vars

\* the replay names a form key no branch handles and carries another body
\* than the submission that created the Case
C29_Witness ==
  \E i, j \in Reqs :
    /\ Replayed(j) /\ cases[req[j].sawCase].by = i
    /\ req[j].formKey \notin FormKeys /\ req[i].formKey \in FormKeys
    /\ req[j].body # req[i].body
    /\ req[j].status = 200 /\ req[j].rCase = req[j].sawCase


\* the last config request named a form key the project has a row for
Configured == conf.asked \in ConfigKeys /\ conf.status # 404

\* C30: the config request of a form the project has a row for answers 200;
\* the response carries formKey, title, isActive and configVersion, and its
\* fields and rules are the stored ones when the row stores a schema with a
\* non-empty field list, the built-in default of the form key otherwise.
C30_ConfigSchema ==
  Configured =>
    LET row == conf.rows[conf.asked]
        schema == IF row.config.fields # <<>> THEN row.config
                  ELSE buildDefaultFormConfig(conf.asked)
    IN /\ conf.status = 200
       /\ {"formKey", "title", "isActive", "configVersion", "fields", "rules"}
            \subseteq DOMAIN conf.body
       /\ conf.body.formKey = conf.asked
       /\ conf.body.title = row.title
       /\ conf.body.isActive = row.isActive
       /\ conf.body.fields = schema.fields
       /\ conf.body.rules = schema.rules


\* C31: a project that had an owner membership still has one after any
\* sequence or interleaving of role changes and removals of members.
C31_LastOwnerGuard == Owners(members) # {}


\* requireAuth let the request through
Authorized(r) == staff[r].role # ""

\* the token of the request is honoured only with a membership of its user
\* at the time of the request, and with the role of that membership
ByMembership ==
  \A r \in StaffReqs :
    /\ Authorized(r) => (staff[r].at # NoMember /\ staff[r].role = staff[r].at)
    /\ (staff[r].pc # "idle" /\ staff[r].at # NoMember) => Authorized(r)

\* C35 (as claimed): a validly signed token is authorized only if a
\* membership of its (userId, projectId) exists at the time of the request,
\* the role applied is the current role of that membership, and every
\* request that comes after the member was removed is rejected with 403.
C35_Original ==
  /\ ByMembership
  /\ \A r \in StaffReqs : staff[r].late => staff[r].status = 403

\* C35 (amended): the same, with the 403 for every request that comes while
\* the user has no membership of the project.
C35_CurrentMembership ==
  /\ ByMembership
  /\ \A r \in StaffReqs :
       (staff[r].pc # "idle" /\ staff[r].at = NoMember) => staff[r].status = 403

\* a member was removed by another member's request, and a later request
\* with the removed member's token was refused
C35_Witness ==
  \E r, q \in StaffReqs :
    /\ staff[q].op = "delete" /\ staff[q].status = 200 /\ staff[q].target = staff[r].user
    /\ staff[r].late /\ staff[r].at = NoMember /\ staff[r].status = 403


\* C32: an invite token is one-time: however the accept-public and accept
\* requests of different users for it interleave, at most one user is
\* granted a membership through it, every other request is answered 409, or
\* 410 once the token has expired, and a request that comes after the expiry
\* grants nothing.
C32_InviteOneTime ==
  /\ Cardinality(invite.granted) <= 1
  /\ \A a \in Accepts :
       accepts[a].pc = "done"
       => /\ accepts[a].user \notin invite.granted => accepts[a].status \in {409, 410}
          /\ accepts[a].late => ~accepts[a].gave


TxOf(k) == {t \in DOMAIN transactions : transactions[t].caseId = k}

\* C34: every Case created by a donation submission has exactly one
\* Transaction linked to it, and every Transaction a submission created is
\* linked to the donation Case created with it, in every reachable state,
\* also after a donation submission failed or lost the race for its token.
C34_CaseWithTransaction ==
  /\ \A k \in DOMAIN cases :
       cases[k].formKey = "donation" => Cardinality(TxOf(k)) = 1
  /\ \A t \in DOMAIN transactions :
       /\ transactions[t].caseId \in DOMAIN cases
       /\ cases[transactions[t].caseId].formKey = "donation"
       /\ cases[transactions[t].caseId].projectId = transactions[t].projectId
       /\ cases[transactions[t].caseId].contactId = transactions[t].contactId

\* a donation submission lost the race for its token to another donation
\* submission: one Case with one Transaction is stored
C34_Witness ==
  \E i \in Reqs :
    /\ Done(i) /\ req[i].formKey = "donation" /\ req[i].path = "conflict"
    /\ cases[req[i].rCase].formKey = "donation"
    /\ Cardinality(TxOf(req[i].rCase)) = 1
    /\ Len(transactions) = 1


\* the hidden field of the body of i is filled
Trapped(i) == req[i].pc # "idle" /\ Honeypot(req[i].hp)

\* C36: a submission whose field __hp is non-empty after trimming is
\* answered 202 and no Contact, Case or Transaction is created for it,
\* whatever its form key.
C36_HoneypotAccepted ==
  \A i \in Reqs :
    Trapped(i)
    => /\ Done(i) => req[i].status = 202
       /\ \A k \in DOMAIN cases : cases[k].by # i
       /\ req[i].contact = 0

====
